---- MODULE Spec2Model ----
(***************************************************************************)
(* Orders service (src/service_orders/index.js): the in-memory order store *)
(* and its request handlers.  Node runs each synchronous handler to        *)
(* completion, so one handler is one atomic action.                        *)
(*                                                                         *)
(* Representation.  A JSON number is an integer count of thousandths       *)
(* (350 is 350000, 0.125 is 125); every number the model uses is exactly   *)
(* representable as a binary double, so the arithmetic of the code is      *)
(* exact on them.  A product name is represented by its length, the only   *)
(* thing the schema reads.  A timestamp is a tick of the clock `now`.      *)
(***************************************************************************)
EXTENDS Integers, Sequences, FiniteSets, TLC

\* Bounds of the model.
MaxOrders == 1
MaxClock == 1
\* the largest store that is listed with sorting and filtering, and the
\* largest one that is paged through
MaxListed == 3
MaxPaged == 25
\* the requests the gateway receives: with every route, and under failing backends
MaxRouted == 1
MaxRequests == 3
\* the requests of a circuit's failure and recovery
MaxTrials == 2
\* the requests that two circuits share
MaxShared == 2
\* the requests for the details of a user
MaxDetails == 2
\* the requests the order service holds at once
MaxJobs == 2
\* the requests the user service holds at once, besides its own start-up
MaxPending == 2

\* Limits of createOrderSchema.
MaxProductLen == 200
MaxItems == 100

\* Limits of registerSchema and updateProfileSchema.
MinPassword == 6
MinName == 2
MaxName == 100

\* Paging of the list handler: the default and the largest page size.
DefaultLimit == 10
MaxLimit == 100

\* orders: the Map of stored orders; now: the clock; op, res, published: the
\* route of the latest request, its response and the events it published.
\* circuits, calls, replies: the gateway's circuits, backend calls and
\* responses; up: which backends answer.
\* jobs: the requests the order service has received and not yet answered, or
\* answered.  users: the Map of stored users; pending: the requests of the
\* user service, each with the point its handler has reached.
VARIABLES orders, now, op, res, published, circuits, calls, replies, up, jobs, users,
          pending

accounts == <<users, pending>>
service == <<orders, now, op, res, published, jobs, users, pending>>
gateway == <<circuits, calls, replies, up>>
vars == <<orders, now, op, res, published, circuits, calls, replies, up, jobs, users,
          pending>>

Users == {"u1", "u2"}
\* x-user-id header absent
NoUser == "-"
\* x-user-roles header: a JSON array of role labels; <<>> is also the absent
\* header.  A caller is the pair of headers the gateway (or anyone reaching the
\* service) sends: u1 is a plain user, u2 comes with and without the admin
\* role, and one request carries no identity at all.
Callers == {<<"u1", <<"user">>>>, <<"u2", <<>>>>, <<"u2", <<"user", "admin">>>>,
            <<NoUser, <<>>>>}

Statuses == {"created", "in_progress", "completed", "cancelled"}

\* Identifiers uuidv4 may return (one more than the store holds orders, so
\* that an unused one always exists), and identifiers a request of Spec may
\* name (one more than it can store, so that an unknown one always exists).
OrderIds == 1..(Cardinality(DOMAIN orders) + 1)
RequestIds == 1..(MaxOrders + 1)

\* ---------------------------------------------------------------- inputs

Cement == [product |-> 6, quantity |-> 50000, price |-> 350000]
Sand == [product |-> 4, quantity |-> 3000, price |-> 125]
Gravel == [product |-> 200, quantity |-> 1000, price |-> 450250]

NoName == [product |-> 0, quantity |-> 1000, price |-> 1000]
LongName == [product |-> MaxProductLen + 1, quantity |-> 1000, price |-> 1000]
HalfQuantity == [product |-> 4, quantity |-> 1500, price |-> 1000]
NoQuantity == [product |-> 4, quantity |-> 0, price |-> 1000]
MinusQuantity == [product |-> 4, quantity |-> -2000, price |-> 1000]
Gratis == [product |-> 4, quantity |-> 1000, price |-> 0]
MinusPrice == [product |-> 4, quantity |-> 1000, price |-> -500]

\* The bodies of Spec carry one valid item list (the one of QUICK_TEST.md);
\* SpecTotals, below, creates orders from all of PricedItemLists.
ValidItemLists == {<<Cement>>}
PricedItemLists == {<<Cement>>, <<Sand>>, <<Gravel>>, <<Sand, Gravel>>,
                    <<Cement, Sand>>, <<Gravel, Sand, Gravel>>}
InvalidItemLists == {<<>>, <<Cement, NoName>>, <<HalfQuantity>>,
                     [i \in 1..(MaxItems + 1) |-> Sand],
                     <<LongName>>, <<NoQuantity, Cement>>, <<MinusQuantity>>,
                     <<Cement, Gratis>>, <<MinusPrice>>}
\* the bodies of Spec: the valid list, an empty one and one with a bad item;
\* SpecStores takes every list of InvalidItemLists
CreateBodies == [items : ValidItemLists \cup {<<>>, <<HalfQuantity>>}]
StoreBodies == [items : ValidItemLists \cup InvalidItemLists]

\* PATCH bodies: a status of the enum, one outside it, or no status field ("")
PatchBodies == [status : Statuses \cup {"shipped", ""}]

\* The query string of a list request.  page and limit are sequences of
\* characters (parseInt reads them), the other three are compared as wholes.
Query(page, limit, sortBy, sortOrder, status) ==
    [page |-> page, limit |-> limit, sortBy |-> sortBy, sortOrder |-> sortOrder,
     status |-> status]
NoQuery == Query(<<>>, <<>>, "", "", "")

\* the list requests of Spec
BasicQueries == {NoQuery, [NoQuery EXCEPT !.status = "created"]}

\* the list requests of SpecList: every sort and every status filter, with
\* the default paging and with pages of two and of one
SortBys == {"", "createdAt", "updatedAt", "status", "totalAmount", "userId", "items",
            "colour"}
SortOrders == {"", "asc", "desc"}
StatusFilters == Statuses \cup {"", "shipped"}
SortQueries ==
    {Query(paging[1], paging[2], sortBy, sortOrder, "") :
        paging \in {<<<<>>, <<>>>>, <<<<"2">>, <<"2">>>>},
        sortBy \in SortBys, sortOrder \in SortOrders}
FilterQueries ==
    {Query(paging[1], paging[2], "", "", status) :
        paging \in {<<<<>>, <<>>>>, <<<<"2">>, <<"1">>>>}, status \in StatusFilters}
ListQueries == SortQueries \cup FilterQueries

\* the list requests of SpecPages: page and limit as a client may send them
RawPages == {<<>>, <<"0">>, <<"-", "3">>, <<"a", "b", "c">>, <<"2">>,
             <<"2", ".", "7">>, <<" ", "3">>}
RawLimits == {<<>>, <<"0">>, <<"-", "5">>, <<"a", "b", "c">>, <<"7", "p", "x">>,
              <<"1", "0", "0">>, <<"1", "0", "1">>, <<"0", "X", "a">>}
PageQueries == {Query(page, limit, "", "", "") : page \in RawPages, limit \in RawLimits}

\* Stores the service can be in, written as the rows of their orders in the
\* order of creation: owner, items, status, createdAt, updatedAt.
Row(userId, items, status, createdAt, updatedAt) ==
    [userId |-> userId, items |-> items, status |-> status, createdAt |-> createdAt,
     updatedAt |-> updatedAt]
Rows == {Row("u1", <<Cement>>, "created", 0, 0),
         Row("u2", <<Sand>>, "completed", 0, 1),
         Row("u1", <<Sand, Gravel>>, "cancelled", 1, 1),
         Row("u2", <<Cement>>, "in_progress", 1, 1)}
\* the orders of u1 that SpecPages pages through
PagedRow(i) ==
    Row("u1", <<Cement>>, IF i % 2 = 1 THEN "created" ELSE "in_progress", 0, 0)

\* ---------------------------------------------------------------- helpers

Includes(arr, x) == \E i \in DOMAIN arr : arr[i] = x

IsInteger(n) == n % 1000 = 0

ItemValid(item) ==
    /\ item.product >= 1
    /\ item.product <= MaxProductLen
    /\ IsInteger(item.quantity)
    /\ item.quantity > 0
    /\ item.price > 0

\* mutant: only the number of items is checked
createOrderSchema_CountOnly(body) ==
    /\ Len(body.items) >= 1
    /\ Len(body.items) <= MaxItems

createOrderSchema(body) ==
    /\ Len(body.items) >= 1
    /\ Len(body.items) <= MaxItems
    /\ \A i \in DOMAIN body.items : ItemValid(body.items[i])

\* mutant: the status schema accepts any status that is given
updateStatusSchema_AnyString(body) == body.status # ""

updateStatusSchema(body) == body.status \in Statuses

\* item.price * item.quantity, in thousandths
LineAmount(item) ==
    item.price * (item.quantity \div 1000)
        + (item.price * (item.quantity % 1000)) \div 1000

\* items.reduce((sum, item) => sum + item.price * item.quantity, 0)
RECURSIVE Reduce(_, _, _)
Reduce(items, i, sum) ==
    IF i > Len(items) THEN sum
    ELSE Reduce(items, i + 1, sum + LineAmount(items[i]))

\* parseFloat(x.toFixed(2)) for x >= 0: the nearest hundredth, a tie going up
ToFixed2(x) == ((x + 5) \div 10) * 10

\* mutant: the sum stored as computed, toFixed(2) forgotten
TotalAmount_Unrounded(items) == Reduce(items, 1, 0)

TotalAmount(items) == ToFixed2(Reduce(items, 1, 0))

\* the store after the orders of rows were created and updated
StoreOf(rows) ==
    [id \in 1..Len(rows) |->
        [id |-> id,
         userId |-> rows[id].userId,
         items |-> rows[id].items,
         status |-> rows[id].status,
         totalAmount |-> TotalAmount(rows[id].items),
         createdAt |-> rows[id].createdAt,
         updatedAt |-> rows[id].updatedAt]]

\* createdAt does not decrease from one insertion to the next
ListStores ==
    {StoreOf(rows) : rows \in
        {r \in UNION {[1..k -> Rows] : k \in 0..MaxListed} :
            \A i \in 1..(Len(r) - 1) : r[i].createdAt <= r[i + 1].createdAt}}

PagedStores == {StoreOf([i \in 1..k |-> PagedRow(i)]) : k \in 0..MaxPaged}

\* mutant: the admin exemption forgotten
AccessDenied_OwnerOnly(order, userId, userRoles) == order.userId # userId

\* order.userId !== req.userId && !req.userRoles.includes('admin')
AccessDenied(order, userId, userRoles) ==
    order.userId # userId /\ ~Includes(userRoles, "admin")

\* mutant: the check for a cancelled order forgotten
TransitionRejected_CompletedOnly(order, status) ==
    order.status = "completed" /\ status # "completed"

\* mutant: a strict chain created -> in_progress -> completed | cancelled
TransitionRejected_Chain(order, status) ==
    \/ order.status = "completed" /\ status # "completed"
    \/ order.status = "cancelled" /\ status # "cancelled"
    \/ order.status = "created" /\ status = "completed"
    \/ order.status = "in_progress" /\ status = "created"

\* mutant: an absorbing status rejects every update, its own value included
TransitionRejected_Strict(order, status) ==
    order.status \in {"completed", "cancelled"}

\* the two absorbing-status checks of the status update
TransitionRejected(order, status) ==
    \/ order.status = "completed" /\ status # "completed"
    \/ order.status = "cancelled" /\ status # "cancelled"

\* publishEvent(eventType, data): the event type and the fields of data that
\* tell the events of one order apart
Event(type, id, oldStatus, newStatus, by) ==
    [type |-> type, orderId |-> id, oldStatus |-> oldStatus, newStatus |-> newStatus,
     by |-> by]

\* mutant: cancelling a cancelled order goes through again
CancelRejection_Repeatable(order) ==
    IF order.status = "completed" THEN "CANNOT_CANCEL_COMPLETED" ELSE ""

\* the two checks of the cancel handler: the error code, or "" to go on
CancelRejection(order) ==
    IF order.status = "completed" THEN "CANNOT_CANCEL_COMPLETED"
    ELSE IF order.status = "cancelled" THEN "ALREADY_CANCELLED"
    ELSE ""

\* What a handler does with a request in the current state: the store and
\* the clock it leaves, the response it sends, the events it publishes.
Outcome(store, clock, status, code, data, events) ==
    [orders |-> store, now |-> clock,
     res |-> [status |-> status, code |-> code, data |-> data],
     published |-> events]

\* mutant: the timestamps touched before the checks are made
Reject_Touching(status, code) ==
    Outcome([id \in DOMAIN orders |-> [orders[id] EXCEPT !.updatedAt = now]],
            now, status, code, <<>>, <<>>)

\* an error response: nothing stored, nothing published
Reject(status, code) == Outcome(orders, now, status, code, <<>>, <<>>)

\* uuidv4(): an identifier no stored order has (identifiers are opaque, so
\* the least unused one stands for any fresh one)
\* mutant: the identifier handed out last is handed out again
uuidv4_Again == IF orders = <<>> THEN 1 ELSE Cardinality(DOMAIN orders)

uuidv4 == CHOOSE id \in OrderIds \ DOMAIN orders :
              \A other \in OrderIds \ DOMAIN orders : id <= other

\* POST /api/v1/orders; t is the clock at the second new Date()
CreateOrderHandler(userId, roles, body, t) ==
    IF userId = NoUser THEN Reject(401, "UNAUTHORIZED")
    ELSE IF ~createOrderSchema(body) THEN Reject(400, "VALIDATION_ERROR")
    ELSE LET order == [id |-> uuidv4,
                       userId |-> userId,
                       items |-> body.items,
                       status |-> "created",
                       totalAmount |-> TotalAmount(body.items),
                       createdAt |-> now,
                       updatedAt |-> t]
         IN Outcome((order.id :> order) @@ orders, t, 201, "OK", <<order>>,
                    <<Event("ORDER_CREATED", order.id, "", "created", userId)>>)

\* GET /api/v1/orders/:id
GetOrderHandler(userId, roles, id) ==
    IF userId = NoUser THEN Reject(401, "UNAUTHORIZED")
    ELSE IF id \notin DOMAIN orders THEN Reject(404, "ORDER_NOT_FOUND")
    ELSE IF AccessDenied(orders[id], userId, roles) THEN Reject(403, "FORBIDDEN")
    ELSE Outcome(orders, now, 200, "OK", <<orders[id]>>, <<>>)

\* mutant: an order passes to whoever updates it
UpdateStatusHandler_Taking(userId, roles, id, body) ==
    IF userId = NoUser THEN Reject(401, "UNAUTHORIZED")
    ELSE IF ~updateStatusSchema(body) THEN Reject(400, "VALIDATION_ERROR")
    ELSE IF id \notin DOMAIN orders THEN Reject(404, "ORDER_NOT_FOUND")
    ELSE IF AccessDenied(orders[id], userId, roles) THEN Reject(403, "FORBIDDEN")
    ELSE IF TransitionRejected(orders[id], body.status)
         THEN Reject(400, "INVALID_STATUS_TRANSITION")
    ELSE LET order == [orders[id] EXCEPT !.status = body.status, !.updatedAt = now,
                                         !.userId = userId]
         IN Outcome([orders EXCEPT ![id] = order], now, 200, "OK", <<order>>,
                    <<Event("ORDER_STATUS_UPDATED", id, orders[id].status, order.status,
                            userId)>>)

\* PATCH /api/v1/orders/:id/status
UpdateStatusHandler(userId, roles, id, body) ==
    IF userId = NoUser THEN Reject(401, "UNAUTHORIZED")
    ELSE IF ~updateStatusSchema(body) THEN Reject(400, "VALIDATION_ERROR")
    ELSE IF id \notin DOMAIN orders THEN Reject(404, "ORDER_NOT_FOUND")
    ELSE IF AccessDenied(orders[id], userId, roles) THEN Reject(403, "FORBIDDEN")
    ELSE IF TransitionRejected(orders[id], body.status)
         THEN Reject(400, "INVALID_STATUS_TRANSITION")
    ELSE LET order == [orders[id] EXCEPT !.status = body.status, !.updatedAt = now]
         IN Outcome([orders EXCEPT ![id] = order], now, 200, "OK", <<order>>,
                    <<Event("ORDER_STATUS_UPDATED", id, orders[id].status, order.status,
                            userId)>>)

\* mutant: a cancel that tells nobody
CancelOrderHandler_Silent(userId, roles, id) ==
    IF userId = NoUser THEN Reject(401, "UNAUTHORIZED")
    ELSE IF id \notin DOMAIN orders THEN Reject(404, "ORDER_NOT_FOUND")
    ELSE IF AccessDenied(orders[id], userId, roles) THEN Reject(403, "FORBIDDEN")
    ELSE IF CancelRejection(orders[id]) # ""
         THEN Reject(400, CancelRejection(orders[id]))
    ELSE LET order == [orders[id] EXCEPT !.status = "cancelled", !.updatedAt = now]
         IN Outcome([orders EXCEPT ![id] = order], now, 200, "OK", <<order>>, <<>>)

\* mutant: a cancel that takes the order out of the store
CancelOrderHandler_Removing(userId, roles, id) ==
    IF userId = NoUser THEN Reject(401, "UNAUTHORIZED")
    ELSE IF id \notin DOMAIN orders THEN Reject(404, "ORDER_NOT_FOUND")
    ELSE IF AccessDenied(orders[id], userId, roles) THEN Reject(403, "FORBIDDEN")
    ELSE IF CancelRejection(orders[id]) # ""
         THEN Reject(400, CancelRejection(orders[id]))
    ELSE LET order == [orders[id] EXCEPT !.status = "cancelled", !.updatedAt = now]
         IN Outcome([i \in DOMAIN orders \ {id} |-> orders[i]], now, 200, "OK", <<order>>,
                    <<Event("ORDER_CANCELLED", id, orders[id].status, order.status,
                            userId)>>)

\* DELETE /api/v1/orders/:id
CancelOrderHandler(userId, roles, id) ==
    IF userId = NoUser THEN Reject(401, "UNAUTHORIZED")
    ELSE IF id \notin DOMAIN orders THEN Reject(404, "ORDER_NOT_FOUND")
    ELSE IF AccessDenied(orders[id], userId, roles) THEN Reject(403, "FORBIDDEN")
    ELSE IF CancelRejection(orders[id]) # ""
         THEN Reject(400, CancelRejection(orders[id]))
    ELSE LET order == [orders[id] EXCEPT !.status = "cancelled", !.updatedAt = now]
         IN Outcome([orders EXCEPT ![id] = order], now, 200, "OK", <<order>>,
                    <<Event("ORDER_CANCELLED", id, orders[id].status, order.status,
                            userId)>>)

\* ---------------------------------------------------------------- list

\* A query parameter that express hands over as a string is a sequence of
\* one-character strings; <<>> is the empty string and also the absent
\* parameter (parseInt gives NaN for both, and both are falsy).
Max(a, b) == IF a > b THEN a ELSE b
Min(a, b) == IF a < b THEN a ELSE b

\* the value of a character as a digit; 99 when it is none
DigitValue(ch) ==
    CASE ch = "0" -> 0 [] ch = "1" -> 1 [] ch = "2" -> 2 [] ch = "3" -> 3
      [] ch = "4" -> 4 [] ch = "5" -> 5 [] ch = "6" -> 6 [] ch = "7" -> 7
      [] ch = "8" -> 8 [] ch = "9" -> 9
      [] ch \in {"a", "A"} -> 10 [] ch \in {"b", "B"} -> 11
      [] ch \in {"c", "C"} -> 12 [] ch \in {"d", "D"} -> 13
      [] ch \in {"e", "E"} -> 14 [] ch \in {"f", "F"} -> 15
      [] OTHER -> 99

RECURSIVE TrimStart(_)
TrimStart(str) ==
    IF str # <<>> /\ Head(str) = " " THEN TrimStart(Tail(str)) ELSE str

\* the digits of str in the radix, read from position i on, up to the first
\* character that is not one: their count and their value
RECURSIVE ReadDigits(_, _, _, _, _)
ReadDigits(str, radix, i, count, value) ==
    IF i > Len(str) \/ DigitValue(str[i]) >= radix
    THEN [count |-> count, value |-> value]
    ELSE ReadDigits(str, radix, i + 1, count + 1, value * radix + DigitValue(str[i]))

\* parseInt(str) without a radix: leading blanks, a sign, 0x for radix 16,
\* then the longest run of digits; NaN when there is none
ParseInt(str) ==
    LET trimmed == TrimStart(str)
        signed == trimmed # <<>> /\ Head(trimmed) \in {"-", "+"}
        sign == IF trimmed # <<>> /\ Head(trimmed) = "-" THEN -1 ELSE 1
        rest == IF signed THEN Tail(trimmed) ELSE trimmed
        hex == Len(rest) >= 2 /\ rest[1] = "0" /\ rest[2] \in {"x", "X"}
        digits == ReadDigits(IF hex THEN Tail(Tail(rest)) ELSE rest,
                             IF hex THEN 16 ELSE 10, 1, 0, 0)
    IN [nan |-> digits.count = 0, value |-> sign * digits.value]

\* number || fallback: NaN and 0 are falsy
OrElse(number, fallback) ==
    IF number.nan \/ number.value = 0 THEN fallback ELSE number.value

\* Math.max(1, parseInt(req.query.page) || 1)
Page(query) == Max(1, OrElse(ParseInt(query.page), 1))

\* mutant: the page size without its upper limit
Limit_Uncapped(query) == Max(1, OrElse(ParseInt(query.limit), DefaultLimit))

\* Math.min(100, Math.max(1, parseInt(req.query.limit) || 10))
Limit(query) == Min(MaxLimit, Max(1, OrElse(ParseInt(query.limit), DefaultLimit)))

\* req.query.sortBy || 'createdAt'
SortBy(query) == IF query.sortBy = "" THEN "createdAt" ELSE query.sortBy

\* req.query.sortOrder === 'asc' ? 1 : -1
SortOrder(query) == IF query.sortOrder = "asc" THEN 1 ELSE -1

\* Array.from(store.values()): the orders in the order of their insertion.
\* uuidv4 hands out the least unused identifier and no order is ever removed,
\* so the i-th order inserted is the one with identifier i.
Values(store) == [i \in 1..Cardinality(DOMAIN store) |-> store[i]]

\* mutant: every caller sees every order
Visible_All(store, userId, userRoles) == Values(store)

\* filter(o => o.userId === req.userId || req.userRoles.includes('admin'))
Visible(store, userId, userRoles) ==
    LET Mine(o) == o.userId = userId \/ Includes(userRoles, "admin")
    IN SelectSeq(Values(store), Mine)

\* mutant: the filter applied to whatever value is given
FilterStatus_Any(userOrders, status) ==
    LET Matches(o) == o.status = status
    IN IF status # "" THEN SelectSeq(userOrders, Matches) ELSE userOrders

\* the filter on status, applied when the value is one of the four
FilterStatus(userOrders, status) ==
    LET Matches(o) == o.status = status
    IN IF status # "" /\ status \in Statuses THEN SelectSeq(userOrders, Matches)
       ELSE userOrders

\* The place of a string among the strings it is compared with by < and >
\* ("cancelled" < "completed" < "created" < "in_progress", "u1" < "u2").
StringRank(str) ==
    CASE str = "cancelled" -> 1 [] str = "completed" -> 2 [] str = "created" -> 3
      [] str = "in_progress" -> 4 [] str = "u1" -> 1 [] str = "u2" -> 2

\* a[sortBy] as < and > see it: timestamps through getTime(), numbers as
\* they are, strings by their rank; an item array is compared through its
\* string "[object Object],...", which orders arrays by their length; a
\* field the record does not have is undefined, neither below nor above
\* anything
SortValue(order, sortBy) ==
    CASE sortBy = "createdAt" -> order.createdAt
      [] sortBy = "updatedAt" -> order.updatedAt
      [] sortBy = "totalAmount" -> order.totalAmount
      [] sortBy = "status" -> StringRank(order.status)
      [] sortBy = "userId" -> StringRank(order.userId)
      [] sortBy = "items" -> Len(order.items)
      [] OTHER -> 0

\* the comparison function given to sort
Compare(a, b, sortBy, sortOrder) ==
    IF SortValue(a, sortBy) < SortValue(b, sortBy) THEN -1 * sortOrder
    ELSE IF SortValue(a, sortBy) > SortValue(b, sortBy) THEN 1 * sortOrder
    ELSE 0

\* mutant: the sort left out
Sort_Unsorted(userOrders, sortBy, sortOrder) == userOrders

\* userOrders.sort(compare), a stable sort, as the insertion of one element
\* after the other: an element goes behind those already placed that do not
\* compare above it
RECURSIVE SortFrom(_, _, _, _, _)
SortFrom(userOrders, i, sorted, sortBy, sortOrder) ==
    IF i > Len(userOrders) THEN sorted
    ELSE LET k == Cardinality({j \in 1..Len(sorted) :
                       Compare(sorted[j], userOrders[i], sortBy, sortOrder) <= 0})
         IN SortFrom(userOrders, i + 1,
                     SubSeq(sorted, 1, k) \o <<userOrders[i]>>
                         \o SubSeq(sorted, k + 1, Len(sorted)),
                     sortBy, sortOrder)

Sort(userOrders, sortBy, sortOrder) == SortFrom(userOrders, 1, <<>>, sortBy, sortOrder)

\* arr.slice(startIndex, endIndex) for 0 <= startIndex <= endIndex
Slice(arr, startIndex, endIndex) ==
    SubSeq(arr, startIndex + 1, Min(endIndex, Len(arr)))

\* Math.ceil(total / limit)
Ceil(total, limit) == (total + limit - 1) \div limit

\* the orders a list request ranges over, filtered and sorted
Listed(store, userId, userRoles, query) ==
    Sort(FilterStatus(Visible(store, userId, userRoles), query.status),
         SortBy(query), SortOrder(query))

\* mutant: hasNext one page early
Paginate_EarlyEnd(userOrders, page, limit) ==
    LET total == Len(userOrders)
        startIndex == (page - 1) * limit
        endIndex == startIndex + limit
    IN [orders |-> Slice(userOrders, startIndex, endIndex),
        pagination |-> [page |-> page, limit |-> limit, total |-> total,
                        totalPages |-> Ceil(total, limit),
                        hasNext |-> endIndex + limit < total,
                        hasPrev |-> page > 1]]

\* the page slice and the pagination block of the response
Paginate(userOrders, page, limit) ==
    LET total == Len(userOrders)
        startIndex == (page - 1) * limit
        endIndex == startIndex + limit
    IN [orders |-> Slice(userOrders, startIndex, endIndex),
        pagination |-> [page |-> page, limit |-> limit, total |-> total,
                        totalPages |-> Ceil(total, limit),
                        hasNext |-> endIndex < total,
                        hasPrev |-> page > 1]]

\* the data of the list response over a store
ListData(store, userId, userRoles, query) ==
    Paginate(Listed(store, userId, userRoles, query), Page(query), Limit(query))

\* mutant: the listing marks what it has read
ListOrdersHandler_Marking(userId, roles, query) ==
    IF userId = NoUser THEN Reject(401, "UNAUTHORIZED")
    ELSE Outcome([id \in DOMAIN orders |->
                     IF orders[id].userId = userId
                     THEN [orders[id] EXCEPT !.updatedAt = now] ELSE orders[id]],
                 now, 200, "OK", <<ListData(orders, userId, roles, query)>>, <<>>)

\* GET /api/v1/orders
ListOrdersHandler(userId, roles, query) ==
    IF userId = NoUser THEN Reject(401, "UNAUTHORIZED")
    ELSE Outcome(orders, now, 200, "OK", <<ListData(orders, userId, roles, query)>>,
                 <<>>)

\* ---------------------------------------------------------------- gateway

\* The two backends behind the gateway, each with a circuit of its own.
Backends == {"users", "orders"}

\* The key the gateway verifies tokens with.
JWT_SECRET == "secret"

\* circuitOptions, in milliseconds and percent.
Timeout_Double == 2 * 5000
Timeout == 5000
ErrorThresholdPercentage_Whole == 2 * 50
ErrorThresholdPercentage == 50
ResetTimeout_Short == 30000 - 5000
ResetTimeout == 30000

\* Gateway time advances in steps of this many milliseconds.
Step == 5000

\* The trailing window of a circuit's counters and the least number of calls
\* in it before the circuit may open.
Window == 2 * Step
MinimumVolume == 1

\* A token: its form, the key that signed it, whether its exp lies in the
\* past, and the payload the users service signs at login.
Token(form, key, expired, userId, roles) ==
    [form |-> form, key |-> key, expired |-> expired,
     userId |-> userId, roles |-> roles]

Junk == Token("junk", "", FALSE, NoUser, <<>>)

\* jwt.verify(token, JWT_SECRET) returns the payload of a well-formed,
\* unexpired token signed with the secret and throws for every other one
Verifies(token, secret) ==
    token.form = "jwt" /\ token.key = secret /\ ~token.expired

\* Authorization header values: the scheme prefix and what follows it
Authorization(scheme, token) == [scheme |-> scheme, token |-> token]
NoAuthorization == Authorization("", Junk)
Bearer(token) == Authorization("Bearer ", token)

\* req.user of a request that no token has been decoded for
NoClaims == [userId |-> NoUser, roles |-> <<>>]

\* what a middleware does: status 0 is next(), any other an answer
Passed(user) == [status |-> 0, code |-> "", user |-> user]
Refused(status, code) == [status |-> status, code |-> code, user |-> NoClaims]

authMiddleware_Trusting(authorization) ==
    IF authorization.scheme # "Bearer " THEN Refused(401, "UNAUTHORIZED")
    ELSE Passed([userId |-> authorization.token.userId,
                 roles |-> authorization.token.roles])
authMiddleware(authorization) ==
    IF authorization.scheme # "Bearer " THEN Refused(401, "UNAUTHORIZED")
    ELSE IF ~Verifies(authorization.token, JWT_SECRET)
         THEN Refused(401, "INVALID_TOKEN")
    ELSE Passed([userId |-> authorization.token.userId,
                 roles |-> authorization.token.roles])

\* requireRole(...roles): the decoded token holds one of the roles
requireRole_Anyone(roles, user) == user # NoClaims
requireRole(roles, user) ==
    /\ user # NoClaims
    /\ \E i \in DOMAIN roles : Includes(user.roles, roles[i])

\* The routes: the backend a route forwards to, whether authMiddleware guards
\* it, the roles requireRole asks for (<<>>: no role guard).
Route(backend, protected, roles) ==
    [backend |-> backend, protected |-> protected, roles |-> roles]

Routes_Shared ==
    [name \in {"register", "login", "getProfile", "putProfile", "listUsers",
               "createOrder", "listOrders", "getOrder", "updateStatus",
               "cancelOrder", "details"} |->
        Route("users", name \notin {"register", "login"},
              IF name = "listUsers" THEN <<"admin">> ELSE <<>>)]
Routes ==
    [register     |-> Route("users", FALSE, <<>>),
     login        |-> Route("users", FALSE, <<>>),
     getProfile   |-> Route("users", TRUE, <<>>),
     putProfile   |-> Route("users", TRUE, <<>>),
     listUsers    |-> Route("users", TRUE, <<"admin">>),
     createOrder  |-> Route("orders", TRUE, <<>>),
     listOrders   |-> Route("orders", TRUE, <<>>),
     getOrder     |-> Route("orders", TRUE, <<>>),
     updateStatus |-> Route("orders", TRUE, <<>>),
     cancelOrder  |-> Route("orders", TRUE, <<>>),
     details      |-> Route("users", TRUE, <<>>)]

RouteNames == DOMAIN Routes

\* A client request: the route, the Authorization header, the X-User-ID and
\* X-User-Roles headers the client itself sent, and the :userId of the path.
Request(route, authorization, claimed, userId) ==
    [route |-> route, authorization |-> authorization, claimed |-> claimed,
     userId |-> userId]

\* A response body: the error code ("OK" for success) and what it names.
Body(code, detail) == [code |-> code, detail |-> detail]
Result(status, data) == [status |-> status, data |-> data]
NoResult == Result(0, Body("", ""))

\* The identity headers of a backend request; X-User-Roles carries the JSON
\* text of the role array, which the backend parses back to the same array.
IdentityHeaders(userId, roles) == [userId |-> userId, roles |-> roles]
NoIdentity == IdentityHeaders(NoUser, <<>>)

\* options.headers of a proxy route
Headers_FromClient(name, request, user) ==
    IF ~Routes[name].protected THEN NoIdentity
    ELSE IF request.claimed # NoIdentity THEN request.claimed
    ELSE IdentityHeaders(user.userId, user.roles)
Headers(name, request, user) ==
    IF ~Routes[name].protected THEN NoIdentity
    ELSE IdentityHeaders(user.userId, user.roles)

\* breaker.fallback: the answer given in place of a call that failed, timed
\* out or was not let through
fallback_Silent(serviceName) == Result(500, Body("INTERNAL_ERROR", ""))
fallback(serviceName) == Result(503, Body("SERVICE_UNAVAILABLE", serviceName))

\* A backend call of a request: "sent" while awaited, "late" once timed out
\* with the backend's answer still outstanding, "thrown" when the action
\* threw, "settled" with its result, "dropped" when a late answer came.
Leg(phase, age, trial, sends, headers, result) ==
    [phase |-> phase, age |-> age, trial |-> trial, sends |-> sends,
     headers |-> headers, result |-> result]

\* What the backend does with a request: an HTTP answer of any status, or
\* none (connection refused or reset).
Responds(status, data) == [response |-> TRUE, status |-> status, data |-> data]
NoResponse == [response |-> FALSE, status |-> 0, data |-> Body("", "")]

\* The action a circuit wraps: one axios request; an answer of any status is
\* returned, an error without a response is thrown.
Send(headers, trial) == Leg("sent", 0, trial, 1, headers, NoResult)

Action_Retrying(leg, outcome) ==
    IF outcome.response
    THEN [leg EXCEPT !.phase = "settled",
                     !.result = Result(outcome.status, outcome.data)]
    ELSE IF leg.sends < 2 THEN [leg EXCEPT !.sends = @ + 1]
    ELSE [leg EXCEPT !.phase = "thrown"]
Action_Throwing(leg, outcome) ==
    IF outcome.response /\ outcome.status < 500
    THEN [leg EXCEPT !.phase = "settled",
                     !.result = Result(outcome.status, outcome.data)]
    ELSE [leg EXCEPT !.phase = "thrown"]
Action(leg, outcome) ==
    IF outcome.response
    THEN [leg EXCEPT !.phase = "settled",
                     !.result = Result(outcome.status, outcome.data)]
    ELSE [leg EXCEPT !.phase = "thrown"]

\* proxyRequest: the result of circuit.fire becomes the response
proxyRequest_Internal(result) ==
    IF result.status = 503 THEN Result(500, Body("INTERNAL_ERROR", "")) ELSE result
proxyRequest_Masking(result) ==
    IF result.status >= 500 THEN Result(502, result.data) ELSE result
proxyRequest(result) == Result(result.status, result.data)

\* the aggregation route: the profile answer unless it is 200, else the user
\* of the profile answer with the orders of the list answer, or with none
\* when that answer is not 200
Aggregate(userResult, ordersResult) ==
    IF userResult.status # 200 THEN Result(userResult.status, userResult.data)
    ELSE Result(200, Body("OK", [user |-> userResult.data.detail,
                                 orders |-> IF ordersResult.status = 200
                                            THEN ordersResult.data.detail ELSE <<>>]))

\* A circuit: its state, whether the trial call of HALF_OPEN is in flight,
\* the steps of cool-down left, and the calls and failures counted in each
\* step of the trailing window, the current step first.
Circuit(state, trial, cooldown, fires, failures) ==
    [state |-> state, trial |-> trial, cooldown |-> cooldown,
     fires |-> fires, failures |-> failures]

Buckets == Window \div Step
CoolDown == ResetTimeout \div Step

NewCircuit ==
    Circuit("CLOSED", FALSE, 0, [i \in 1..Buckets |-> 0], [i \in 1..Buckets |-> 0])

RECURSIVE Total(_)
Total(counts) == IF counts = <<>> THEN 0 ELSE Head(counts) + Total(Tail(counts))

\* a call is let through while CLOSED, and in HALF_OPEN when it is the trial
Admits(circuit) ==
    \/ circuit.state = "CLOSED"
    \/ circuit.state = "HALF_OPEN" /\ ~circuit.trial

Fired(circuit) ==
    [circuit EXCEPT !.fires[1] = @ + 1, !.trial = (circuit.state = "HALF_OPEN")]

Open(circuit) ==
    [circuit EXCEPT !.state = "OPEN", !.trial = FALSE, !.cooldown = CoolDown]

\* more than the threshold share of the window's calls failed
Trips(circuit) ==
    /\ Total(circuit.fires) >= MinimumVolume
    /\ Total(circuit.failures) * 100 > ErrorThresholdPercentage * Total(circuit.fires)

\* a call that returned: the trial closes the circuit and resets its counters
Succeeded(circuit, trial) ==
    IF circuit.state = "HALF_OPEN" /\ trial THEN NewCircuit ELSE circuit

\* a call that threw or timed out
Failed(circuit, trial) ==
    LET counted == [circuit EXCEPT !.failures[1] = @ + 1]
    IN IF circuit.state = "HALF_OPEN" /\ trial THEN Open(counted)
       ELSE IF circuit.state = "CLOSED" /\ Trips(counted) THEN Open(counted)
       ELSE counted

\* one step of time: the window moves on and the cool-down runs
Elapsed(circuit) ==
    [circuit EXCEPT !.fires = <<0>> \o SubSeq(@, 1, Buckets - 1),
                    !.failures = <<0>> \o SubSeq(@, 1, Buckets - 1),
                    !.cooldown = IF circuit.state = "OPEN" THEN @ - 1 ELSE @]

\* the cool-down timer fires
HalfOpened(circuit) == [circuit EXCEPT !.state = "HALF_OPEN", !.trial = FALSE]

\* The gateway: its circuits, the backend calls of its requests by request
\* and backend, and the responses of its requests (status 0: none yet).
Gateway(breakers, legs, answers) ==
    [circuits |-> breakers, calls |-> legs, replies |-> answers]

Reply(route, result) ==
    [route |-> route, status |-> result.status, data |-> result.data]

Legs(g, id) == {b \in Backends : <<id, b>> \in DOMAIN g.calls}

\* circuit.fire: the action runs if the circuit lets the call through, else
\* the fallback answers at once
Fire(g, id, backend, headers) ==
    LET circuit == g.circuits[backend]
    IN IF Admits(circuit)
       THEN [g EXCEPT !.circuits[backend] = Fired(circuit),
                      !.calls = @ @@ (<<id, backend>> :>
                                  Send(headers, circuit.state = "HALF_OPEN"))]
       ELSE [g EXCEPT !.calls = @ @@ (<<id, backend>> :>
                                  Leg("settled", 0, FALSE, 0, headers,
                                      fallback(backend)))]

\* the route answers once each of its calls has a result
Respond(g, id) ==
    LET route == g.replies[id].route
        result(b) == g.calls[<<id, b>>].result
    IN IF g.replies[id].status # 0 \/ \E b \in Legs(g, id) : result(b) = NoResult
       THEN g
       ELSE [g EXCEPT !.replies[id] =
                Reply(route, IF route = "details"
                             THEN Aggregate(result("users"), result("orders"))
                             ELSE proxyRequest(result(Routes[route].backend)))]

Answer(g, id, route, status, code) ==
    [g EXCEPT !.replies = @ @@ (id :> Reply(route, Result(status, Body(code, ""))))]

Await(g, id, route) == [g EXCEPT !.replies = @ @@ (id :> Reply(route, NoResult))]

\* mutant: the backends are called in the name of the caller
DetailsRoute_AsCaller(g, id, request, user) ==
    IF user.userId # request.userId /\ ~Includes(user.roles, "admin")
    THEN Answer(g, id, "details", 403, "FORBIDDEN")
    ELSE LET headers == IdentityHeaders(user.userId, user.roles)
         IN Respond(Fire(Fire(Await(g, id, "details"), id, "users", headers),
                         id, "orders", headers), id)

\* GET /api/v1/users/:userId/details
DetailsRoute(g, id, request, user) ==
    IF user.userId # request.userId /\ ~Includes(user.roles, "admin")
    THEN Answer(g, id, "details", 403, "FORBIDDEN")
    ELSE LET headers == IdentityHeaders(request.userId, <<"user">>)
         IN Respond(Fire(Fire(Await(g, id, "details"), id, "users", headers),
                         id, "orders", headers), id)

\* a request runs through the middlewares of its route and the route
Handle(g, id, request) ==
    LET name == request.route
        route == Routes[name]
        auth == IF route.protected THEN authMiddleware(request.authorization)
                ELSE Passed(NoClaims)
    IN IF auth.status # 0 THEN Answer(g, id, name, auth.status, auth.code)
       ELSE IF route.roles # <<>> /\ ~requireRole(route.roles, auth.user)
            THEN Answer(g, id, name, 403, "FORBIDDEN")
       ELSE IF name = "details" THEN DetailsRoute(g, id, request, auth.user)
       ELSE Respond(Fire(Await(g, id, name), id, route.backend,
                         Headers(name, request, auth.user)), id)

\* the backend's answer, or its failure to answer, reaches an awaited call
Settle(g, id, backend, outcome) ==
    LET leg == g.calls[<<id, backend>>]
        after == Action(leg, outcome)
        circuit == g.circuits[backend]
    IN CASE after.phase = "settled" ->
              Respond([g EXCEPT !.calls[<<id, backend>>] = after,
                                !.circuits[backend] = Succeeded(circuit, leg.trial)],
                      id)
         [] after.phase = "thrown" ->
              Respond([g EXCEPT !.calls[<<id, backend>>] =
                                    [after EXCEPT !.result = fallback(backend)],
                                !.circuits[backend] = Failed(circuit, leg.trial)],
                      id)
         [] OTHER -> [g EXCEPT !.calls[<<id, backend>>] = after]

\* the timeout of an awaited call fires: the call has failed, whatever the
\* backend does later
TimedOut(g, id, backend) ==
    LET leg == g.calls[<<id, backend>>]
    IN Respond([g EXCEPT !.calls[<<id, backend>>] =
                             [leg EXCEPT !.phase = "late",
                                         !.result = fallback(backend)],
                         !.circuits[backend] = Failed(@, leg.trial)],
               id)

\* the backend's answer to a call that has timed out
Dropped(g, id, backend, outcome) ==
    [g EXCEPT !.calls[<<id, backend>>].phase = "dropped"]

Due(leg) == leg.phase = "sent" /\ leg.age * Step >= Timeout

Aged(leg) == IF leg.phase = "sent" THEN [leg EXCEPT !.age = @ + 1] ELSE leg

\* the gateway before its first request
GatewayInit ==
    /\ circuits = [b \in Backends |-> NewCircuit]
    /\ calls = <<>>
    /\ replies = <<>>
    /\ up = [b \in Backends |-> TRUE]

\* ---------------------------------------------------------------- user service

\* Strings the service compares character by character are sequences of
\* one-character strings; a name is its length.
AdminEmail == <<"a", "d", "m", "i", "n", "@", "t", "e", "s", "t", ".", "c", "o", "m">>
Ann == <<"a", "n", "n", "@", "x", ".", "i", "o">>
ANN == <<"A", "n", "n", "@", "X", ".", "i", "o">>
NotEmail == <<"a", "n", "n">>
AdminPassword == <<"a", "d", "m", "i", "n", "1", "2", "3">>
Secret == <<"s", "e", "c", "r", "e", "t">>
Guess == <<"g", "u", "e", "s", "s", "1">>

\* String.prototype.toLowerCase, on the letters the requests hold
LowerChar(ch) ==
    CASE ch = "A" -> "a" [] ch = "N" -> "n" [] ch = "X" -> "x" [] ch = "I" -> "i"
      [] ch = "O" -> "o" [] OTHER -> ch
toLowerCase(str) == [i \in DOMAIN str |-> LowerChar(str[i])]

\* z.string().email(): one @ with a local part before it, and after it a
\* domain with a dot inside
IsEmail(str) ==
    \E at \in DOMAIN str :
       /\ str[at] = "@"
       /\ \A i \in DOMAIN str : str[i] = "@" => i = at
       /\ at > 1
       /\ \E dot \in DOMAIN str : str[dot] = "." /\ dot > at + 1 /\ dot < Len(str)

\* bcrypt.hash and bcrypt.compare: a hash matches the password it was made of
Hash(password) == <<"$2b$", password>>
BcryptCompare(password, passwordHash) == passwordHash = Hash(password)

\* the fields of a stored user that requests read or write, and its place in
\* the Map, which iterates in the order of insertion
User(id, email, passwordHash, name, roles) ==
    [id |-> id, email |-> email, passwordHash |-> passwordHash, name |-> name,
     roles |-> roles, place |-> Cardinality(DOMAIN users) + 1]

\* identifiers uuidv4() hands out: the one of the seeded admin, then those of
\* registered users, none twice
AdminId == "n0"
UserIds == <<"n1", "n2", "n3", "n4">>
NewUserId == UserIds[Cardinality(DOMAIN users \ {AdminId}) + 1]

\* a request body; fields of other routes, and fields the schemas do not
\* name, ride along and are dropped by parse
UserBody(email, password, name, roles) ==
    [email |-> email, password |-> password, name |-> name, roles |-> roles]

registerSchema(body) ==
    /\ IsEmail(body.email)
    /\ Len(body.password) >= MinPassword
    /\ body.name >= MinName
    /\ body.name <= MaxName

loginSchema(body) == IsEmail(body.email) /\ Len(body.password) >= 1

\* both fields optional: <<>> is an absent email, 0 an absent name
updateProfileSchema(body) ==
    /\ body.name # 0 => body.name >= MinName /\ body.name <= MaxName
    /\ body.email # <<>> => IsEmail(body.email)

\* users.values().find(u => u.email.toLowerCase() === email.toLowerCase())
FindByEmail(email) ==
    {id \in DOMAIN users : toLowerCase(users[id].email) = toLowerCase(email)}
\* find returns the first of them in the Map
First(ids) == CHOOSE id \in ids : \A other \in ids : users[id].place <= users[other].place

\* a request of the user service: route, x-user-id header, body
UserRequest(route, userId, body) == [route |-> route, userId |-> userId, body |-> body]

\* a request in the service, with the point its handler has reached (arrived,
\* hashing, comparing, done), the user a login found, and the response
Pending(request, phase, found, response) ==
    [request |-> request, phase |-> phase, found |-> found, res |-> response]

Response(status, code, data) == [status |-> status, code |-> code, data |-> data]

\* createAdminUser() called from app.listen: at its await
Seed ==
    Pending(UserRequest("seed", NoUser, UserBody(AdminEmail, AdminPassword, 13, <<>>)),
            "hashing", NoUser, Response(0, "", <<>>))

\* the user service as it starts: the store empty, the admin being hashed
UsersInit ==
    /\ users = <<>>
    /\ pending = <<Seed>>

\* ---------------------------------------------------------------- state

Init ==
    /\ orders = <<>>
    /\ now = 0
    /\ op = "none"
    /\ res = [status |-> 0, code |-> "", data |-> <<>>]
    /\ published = <<>>
    /\ GatewayInit
    /\ jobs = <<>>
    /\ UsersInit

\* the outcome of a handler becomes the state
Apply(out) ==
    /\ orders' = out.orders
    /\ now' = out.now
    /\ res' = out.res
    /\ published' = out.published
    /\ UNCHANGED gateway
    /\ UNCHANGED accounts

\* a handler runs to completion on a request that is alone in the service
Commit(out) ==
    /\ Apply(out)
    /\ UNCHANGED jobs

\* time passes between two requests
Tick ==
    /\ now < MaxClock
    /\ now' = now + 1
    /\ UNCHANGED <<orders, op, res, published, jobs>>
    /\ UNCHANGED gateway
    /\ UNCHANGED accounts

\* the clock at a later new Date() of the same handler
Later == {now, IF now < MaxClock THEN now + 1 ELSE now}

CreateOrder(userId, roles, body) ==
    /\ createOrderSchema(body) => Cardinality(DOMAIN orders) < MaxOrders
    /\ op' = "create"
    /\ \E t \in Later : Commit(CreateOrderHandler(userId, roles, body, t))

GetOrder(userId, roles, id) ==
    /\ op' = "get"
    /\ Commit(GetOrderHandler(userId, roles, id))

UpdateStatus(userId, roles, id, body) ==
    /\ op' = "patch"
    /\ Commit(UpdateStatusHandler(userId, roles, id, body))

CancelOrder(userId, roles, id) ==
    /\ op' = "delete"
    /\ Commit(CancelOrderHandler(userId, roles, id))

ListOrders(userId, roles, query) ==
    /\ op' = "list"
    /\ Commit(ListOrdersHandler(userId, roles, query))

Next ==
    \/ Tick
    \/ \E c \in Callers, body \in CreateBodies : CreateOrder(c[1], c[2], body)
    \/ \E c \in Callers, id \in RequestIds : GetOrder(c[1], c[2], id)
    \/ \E c \in Callers, id \in RequestIds, body \in PatchBodies :
          UpdateStatus(c[1], c[2], id, body)
    \/ \E c \in Callers, id \in RequestIds : CancelOrder(c[1], c[2], id)
    \/ \E c \in Callers, query \in BasicQueries : ListOrders(c[1], c[2], query)

Spec == Init /\ [][Next]_vars

\* The life of orders with various item lists under their owner's requests:
\* u1 creates orders from PricedItemLists, updates their status, cancels them.
NextTotals ==
    \/ \E items \in PricedItemLists : CreateOrder("u1", <<"user">>, [items |-> items])
    \/ \E id \in RequestIds, status \in Statuses :
          UpdateStatus("u1", <<"user">>, id, [status |-> status])
    \/ \E id \in RequestIds : CancelOrder("u1", <<"user">>, id)

SpecTotals == Init /\ [][NextTotals]_vars

\* Reading a store of several orders of both users: lists with every sort
\* and filter, and single reads.
InitList ==
    /\ orders \in ListStores
    /\ now = MaxClock
    /\ op = "none"
    /\ res = [status |-> 0, code |-> "", data |-> <<>>]
    /\ published = <<>>
    /\ GatewayInit
    /\ jobs = <<>>
    /\ UsersInit

NextList ==
    \/ \E c \in Callers, query \in ListQueries : ListOrders(c[1], c[2], query)
    \/ \E c \in Callers, id \in 1..(MaxListed + 1) : GetOrder(c[1], c[2], id)

SpecList == InitList /\ [][NextList]_vars

\* Creating orders in a store that holds orders already.
AddOrder(userId, roles, body) ==
    /\ createOrderSchema(body) => Cardinality(DOMAIN orders) <= MaxListed
    /\ op' = "create"
    /\ \E t \in Later : Commit(CreateOrderHandler(userId, roles, body, t))

NextStores == \E c \in Callers, body \in StoreBodies : AddOrder(c[1], c[2], body)

SpecStores == InitList /\ [][NextStores]_vars

\* Paging through the orders of u1.
InitPages ==
    /\ orders \in PagedStores
    /\ now = MaxClock
    /\ op = "none"
    /\ res = [status |-> 0, code |-> "", data |-> <<>>]
    /\ published = <<>>
    /\ GatewayInit
    /\ jobs = <<>>
    /\ UsersInit

NextPages == \E c \in Callers, query \in PageQueries : ListOrders(c[1], c[2], query)

SpecPages == InitPages /\ [][NextPages]_vars

\* ---------------------------------------------------------------- requests in flight

\* Requests reach the order service over separate connections, so those in
\* flight are handled in any order.  A request is the route, the identity
\* headers, the order named in the path and the body.
OrderRequest(route, caller, id, body) ==
    [route |-> route, userId |-> caller[1], roles |-> caller[2], id |-> id, body |-> body]

Owner == <<"u1", <<"user">>>>
Admin == <<"u2", <<"user", "admin">>>>

\* the requests of SpecConcurrent: the owner creates, reads, lists, updates
\* and cancels; an admin cancels; all but the create name the first order
ConcurrentRequests ==
    {OrderRequest("create", Owner, 0, [items |-> <<Sand>>]),
     OrderRequest("get", Owner, 1, <<>>),
     OrderRequest("list", Owner, 0, NoQuery),
     OrderRequest("delete", Owner, 1, <<>>),
     OrderRequest("delete", Admin, 1, <<>>)}
    \cup {OrderRequest("patch", Owner, 1, [status |-> status]) :
             status \in {"created", "in_progress", "completed"}}

NotYet == [status |-> 0, code |-> "", data |-> <<>>]
NoOutcome == Outcome(<<>>, 0, 0, "", <<>>, <<>>)

\* a request in the service: arrived, or done with the response sent; held is
\* what a handler that yielded would carry over the yield
Job(request, phase, held, response) ==
    [request |-> request, phase |-> phase, held |-> held, res |-> response]

\* app.post, app.get, app.patch, app.delete: the handler of the route, run at
\* the current state; t is the clock at a later new Date()
Router(request, t) ==
    CASE request.route = "create" ->
            CreateOrderHandler(request.userId, request.roles, request.body, t)
      [] request.route = "get" ->
            GetOrderHandler(request.userId, request.roles, request.id)
      [] request.route = "list" ->
            ListOrdersHandler(request.userId, request.roles, request.body)
      [] request.route = "patch" ->
            UpdateStatusHandler(request.userId, request.roles, request.id, request.body)
      [] request.route = "delete" ->
            CancelOrderHandler(request.userId, request.roles, request.id)

\* mutant: the update and the cancel await between orders.get and the write
Yields_AfterRead(route) == route \in {"patch", "delete"}

\* whether the handler of a route gives up the thread between its first
\* statement and res.json: no handler of the order service holds an await, a
\* callback or a timer
Yields(route) == FALSE

\* a request arrives
Arrive(request) ==
    /\ Len(jobs) < MaxJobs
    /\ jobs' = Append(jobs, Job(request, "arrived", NoOutcome, NotYet))
    /\ UNCHANGED <<orders, now, op, res, published>>
    /\ UNCHANGED gateway
    /\ UNCHANGED accounts

\* the event loop runs the handler of a request in flight, up to its yield
\* or, from the yield or without one, up to the response
Serve(k) ==
    /\ k \in DOMAIN jobs
    /\ jobs[k].phase # "done"
    /\ jobs[k].request.route = "create" => Cardinality(DOMAIN orders) <= MaxOrders
    /\ \E t \in Later :
          LET out == IF jobs[k].phase = "read" THEN jobs[k].held
                     ELSE Router(jobs[k].request, t)
          IN IF jobs[k].phase = "arrived" /\ Yields(jobs[k].request.route)
             THEN /\ jobs' = [jobs EXCEPT ![k].phase = "read", ![k].held = out]
                  /\ UNCHANGED <<orders, now, op, res, published>>
                  /\ UNCHANGED gateway
                  /\ UNCHANGED accounts
             ELSE /\ op' = jobs[k].request.route
                  /\ Apply(out)
                  /\ jobs' = [jobs EXCEPT ![k] =
                                 Job(jobs[k].request, "done", NoOutcome, out.res)]

\* one order of u1, created or in progress, and nothing in flight
InitConcurrent ==
    /\ orders \in {StoreOf(<<Row("u1", <<Cement>>, status, 0, 0)>>) :
                     status \in {"created", "in_progress"}}
    /\ now = 0
    /\ op = "none"
    /\ res = NotYet
    /\ published = <<>>
    /\ GatewayInit
    /\ jobs = <<>>
    /\ UsersInit

NextConcurrent ==
    \/ \E request \in ConcurrentRequests : Arrive(request)
    \/ \E k \in 1..MaxJobs : Serve(k)

SpecConcurrent == InitConcurrent /\ [][NextConcurrent]_vars

\* ---------------------------------------------------------------- user service state

\* the response data of a user: the stored fields without the hash
View(user) == [id |-> user.id, email |-> user.email, name |-> user.name,
               roles |-> user.roles]

Others == <<orders, now, op, res, published, jobs>>

Finish(k, found, response) ==
    pending' = [pending EXCEPT ![k] = Pending(pending[k].request, "done", found, response)]

Proceed(k, phase, found) ==
    pending' = [pending EXCEPT ![k].phase = phase, ![k].found = found]

\* a request reaches the user service
UserArrive(request) ==
    /\ Len(pending) <= MaxPending
    /\ pending' = Append(pending, Pending(request, "arrived", NoUser, Response(0, "", <<>>)))
    /\ UNCHANGED users
    /\ UNCHANGED Others
    /\ UNCHANGED gateway

\* createAdminUser after its await: users.set(adminId, adminUser)
CreateAdminUser(k) ==
    /\ k \in DOMAIN pending
    /\ pending[k].request.route = "seed"
    /\ pending[k].phase = "hashing"
    /\ LET body == pending[k].request.body
           adminUser == User(AdminId, body.email, Hash(body.password), body.name,
                             <<"admin", "user">>)
       IN /\ users' = (AdminId :> adminUser) @@ users
          /\ Finish(k, AdminId, Response(0, "", <<>>))
    /\ UNCHANGED Others
    /\ UNCHANGED gateway

\* POST /api/v1/users/register up to its await: parse, the search for the
\* email, and either a 400 or the call of bcrypt.hash
RegisterChecks(k) ==
    /\ k \in DOMAIN pending
    /\ pending[k].request.route = "register"
    /\ pending[k].phase = "arrived"
    /\ LET body == pending[k].request.body IN
       IF ~registerSchema(body)
       THEN Finish(k, NoUser, Response(400, "VALIDATION_ERROR", <<>>))
       ELSE IF FindByEmail(body.email) # {}
       THEN Finish(k, NoUser, Response(400, "USER_EXISTS", <<>>))
       ELSE Proceed(k, "hashing", NoUser)
    /\ UNCHANGED users
    /\ UNCHANGED Others
    /\ UNCHANGED gateway

\* mutant: the roles of the new user are those the body asks for
RegisterStores_AsAsked(k) ==
    /\ k \in DOMAIN pending
    /\ pending[k].request.route = "register"
    /\ pending[k].phase = "hashing"
    /\ LET body == pending[k].request.body
           user == User(NewUserId, body.email, Hash(body.password), body.name,
                        IF body.roles = <<>> THEN <<"user">> ELSE body.roles)
       IN /\ users' = (user.id :> user) @@ users
          /\ Finish(k, user.id, Response(201, "OK", <<View(user)>>))
    /\ UNCHANGED Others
    /\ UNCHANGED gateway

\* POST /api/v1/users/register from its await on: the user is built and
\* stored, and 201 sent
RegisterStores(k) ==
    /\ k \in DOMAIN pending
    /\ pending[k].request.route = "register"
    /\ pending[k].phase = "hashing"
    /\ LET body == pending[k].request.body
           user == User(NewUserId, body.email, Hash(body.password), body.name, <<"user">>)
       IN /\ users' = (user.id :> user) @@ users
          /\ Finish(k, user.id, Response(201, "OK", <<View(user)>>))
    /\ UNCHANGED Others
    /\ UNCHANGED gateway

\* POST /api/v1/users/login up to its await: parse, the search for the
\* email, and either a 400, a 401 or the call of bcrypt.compare
LoginFinds(k) ==
    /\ k \in DOMAIN pending
    /\ pending[k].request.route = "login"
    /\ pending[k].phase = "arrived"
    /\ LET body == pending[k].request.body IN
       IF ~loginSchema(body)
       THEN Finish(k, NoUser, Response(400, "VALIDATION_ERROR", <<>>))
       ELSE IF FindByEmail(body.email) = {}
       THEN Finish(k, NoUser, Response(401, "INVALID_CREDENTIALS", <<>>))
       ELSE Proceed(k, "comparing", First(FindByEmail(body.email)))
    /\ UNCHANGED users
    /\ UNCHANGED Others
    /\ UNCHANGED gateway

\* POST /api/v1/users/login from its await on: 401, or a token signed with
\* the identifier, and the roles as the found user holds them now
LoginSigns(k) ==
    /\ k \in DOMAIN pending
    /\ pending[k].request.route = "login"
    /\ pending[k].phase = "comparing"
    /\ LET user == users[pending[k].found] IN
       IF ~BcryptCompare(pending[k].request.body.password, user.passwordHash)
       THEN Finish(k, user.id, Response(401, "INVALID_CREDENTIALS", <<>>))
       ELSE Finish(k, user.id,
                   Response(200, "OK",
                            <<Token("jwt", JWT_SECRET, FALSE, user.id, user.roles)>>))
    /\ UNCHANGED users
    /\ UNCHANGED Others
    /\ UNCHANGED gateway

\* PUT /api/v1/users/profile, which holds no await
UpdateProfile(k) ==
    /\ k \in DOMAIN pending
    /\ pending[k].request.route = "update"
    /\ pending[k].phase = "arrived"
    /\ LET body == pending[k].request.body
           userId == pending[k].request.userId
       IN IF userId = NoUser
          THEN /\ Finish(k, NoUser, Response(401, "UNAUTHORIZED", <<>>))
               /\ UNCHANGED users
          ELSE IF ~updateProfileSchema(body)
          THEN /\ Finish(k, NoUser, Response(400, "VALIDATION_ERROR", <<>>))
               /\ UNCHANGED users
          ELSE IF userId \notin DOMAIN users
          THEN /\ Finish(k, NoUser, Response(404, "USER_NOT_FOUND", <<>>))
               /\ UNCHANGED users
          ELSE IF /\ body.email # <<>>
                  /\ body.email # users[userId].email
                  /\ FindByEmail(body.email) \ {userId} # {}
          THEN /\ Finish(k, userId, Response(400, "EMAIL_EXISTS", <<>>))
               /\ UNCHANGED users
          ELSE LET user == [users[userId] EXCEPT
                               !.name = IF body.name # 0 THEN body.name ELSE @,
                               !.email = IF body.email # <<>> THEN body.email ELSE @]
               IN /\ users' = [users EXCEPT ![userId] = user]
                  /\ Finish(k, userId, Response(200, "OK", <<View(user)>>))
    /\ UNCHANGED Others
    /\ UNCHANGED gateway

\* the requests of SpecUsers
Registrations ==
    {UserRequest("register", NoUser, UserBody(email, Secret, 3, <<>>)) :
        email \in {Ann, ANN, AdminEmail}}
    \cup {UserRequest("register", NoUser, UserBody(Ann, Secret, 3, <<"admin", "user">>)),
          UserRequest("register", NoUser, UserBody(NotEmail, Secret, 3, <<>>))}
Logins ==
    {UserRequest("login", NoUser, UserBody(AdminEmail, AdminPassword, 0, <<>>)),
     UserRequest("login", NoUser, UserBody(ANN, Secret, 0, <<>>)),
     UserRequest("login", NoUser, UserBody(Ann, Guess, 0, <<>>))}
Updates ==
    {UserRequest("update", userId, UserBody(email, <<>>, 0, <<"admin", "user">>)) :
        userId \in {UserIds[1], UserIds[2]}, email \in {ANN, AdminEmail}}
    \cup {UserRequest("update", UserIds[1], UserBody(<<>>, <<>>, 4, <<"admin">>)),
          UserRequest("update", NoUser, UserBody(<<>>, <<>>, 4, <<>>))}

NextUsers ==
    \/ \E request \in Registrations \cup Logins \cup Updates : UserArrive(request)
    \/ \E k \in 1..(MaxPending + 1) :
          \/ CreateAdminUser(k)
          \/ RegisterChecks(k)
          \/ RegisterStores(k)
          \/ LoginFinds(k)
          \/ LoginSigns(k)
          \/ UpdateProfile(k)

SpecUsers == Init /\ [][NextUsers]_vars

\* ---------------------------------------------------------------- gateway state

Current == Gateway(circuits, calls, replies)

Become(g) ==
    /\ circuits' = g.circuits
    /\ calls' = g.calls
    /\ replies' = g.replies
    /\ UNCHANGED service

NextId == Cardinality(DOMAIN replies) + 1

\* a client request arrives and runs up to its answer or its backend calls
Receive(request, most) ==
    /\ NextId <= most
    /\ Become(Handle(Current, NextId, request))
    /\ UNCHANGED up

Awaited(id, backend) ==
    <<id, backend>> \in DOMAIN calls /\ calls[<<id, backend>>].phase = "sent"

\* a backend that is up answers a call
BackendAnswers(id, backend, status, data) ==
    /\ Awaited(id, backend)
    /\ up[backend]
    /\ Become(Settle(Current, id, backend, Responds(status, data)))
    /\ UNCHANGED up

\* a backend that is down refuses the connection
BackendRefuses(id, backend) ==
    /\ Awaited(id, backend)
    /\ ~up[backend]
    /\ Become(Settle(Current, id, backend, NoResponse))
    /\ UNCHANGED up

\* the timeout of a call fires
TimeoutFires(id, backend) ==
    /\ Awaited(id, backend)
    /\ Due(calls[<<id, backend>>])
    /\ Become(TimedOut(Current, id, backend))
    /\ UNCHANGED up

\* the backend answers a call that has timed out
LateAnswer(id, backend, status, data) ==
    /\ <<id, backend>> \in DOMAIN calls
    /\ calls[<<id, backend>>].phase = "late"
    /\ Become(Dropped(Current, id, backend, Responds(status, data)))
    /\ UNCHANGED up

\* the cool-down timer of an open circuit fires
HalfOpenTimer(backend) ==
    /\ circuits[backend].state = "OPEN"
    /\ circuits[backend].cooldown = 0
    /\ circuits' = [circuits EXCEPT ![backend] = HalfOpened(@)]
    /\ UNCHANGED <<calls, replies, up>>
    /\ UNCHANGED service

\* One step of time passes. Timers fire on time, and a backend that is up
\* answers within the step.
Elapse ==
    /\ \A k \in DOMAIN calls : ~Due(calls[k])
    /\ \A k \in DOMAIN calls : calls[k].phase = "sent" => ~up[k[2]]
    /\ \A b \in Backends : circuits[b].state = "OPEN" => circuits[b].cooldown > 0
    /\ circuits' = [b \in Backends |-> Elapsed(circuits[b])]
    /\ calls' = [k \in DOMAIN calls |-> Aged(calls[k])]
    /\ UNCHANGED <<replies, up>>
    /\ UNCHANGED service

Crash(backend) ==
    /\ up[backend]
    /\ up' = [up EXCEPT ![backend] = FALSE]
    /\ UNCHANGED <<circuits, calls, replies>>
    /\ UNCHANGED service

Recover(backend) ==
    /\ ~up[backend]
    /\ up' = [up EXCEPT ![backend] = TRUE]
    /\ UNCHANGED <<circuits, calls, replies>>
    /\ UNCHANGED service

\* Tokens and headers of the requests the gateway is driven with.
UserToken == Token("jwt", JWT_SECRET, FALSE, "u1", <<"user">>)
AdminToken == Token("jwt", JWT_SECRET, FALSE, "u2", <<"admin", "user">>)
ForgedToken == Token("jwt", "other", FALSE, "u1", <<"admin", "user">>)
ExpiredToken == Token("jwt", JWT_SECRET, TRUE, "u2", <<"admin", "user">>)

GoodTokens == {UserToken, AdminToken}
BadTokens == {Junk, ForgedToken, ExpiredToken}

Authorizations ==
    {NoAuthorization, Authorization("Basic ", AdminToken)}
        \cup {Bearer(token) : token \in GoodTokens \cup BadTokens}

\* X-User-ID and X-User-Roles as a client may send them itself
ClaimedIdentities == {NoIdentity, IdentityHeaders("u2", <<"admin", "user">>)}

Requests ==
    {Request(name, authorization, claimed, userId) :
        name \in RouteNames \ {"details"}, authorization \in Authorizations,
        claimed \in ClaimedIdentities, userId \in {"u1"}}
    \cup {Request("details", authorization, claimed, userId) :
            authorization \in Authorizations, claimed \in ClaimedIdentities,
            userId \in Users}

\* answers of a backend
Answers ==
    {Responds(200, Body("OK", "")), Responds(201, Body("OK", "")),
     Responds(400, Body("VALIDATION_ERROR", "")),
     Responds(404, Body("NOT_FOUND", "")),
     Responds(500, Body("INTERNAL_ERROR", ""))}

\* The routes of the gateway with backends that answer every call.
NextRoutes ==
    \/ \E request \in Requests : Receive(request, MaxRouted)
    \/ \E id \in 1..MaxRouted, b \in Backends, answer \in Answers :
          BackendAnswers(id, b, answer.status, answer.data)

SpecRoutes == Init /\ [][NextRoutes]_vars

\* The aggregation route over an order service that holds orders of both
\* users, answers the list call from its store, and goes down and comes back.
DetailsRequests ==
    {Request("details", Bearer(token), NoIdentity, userId) :
        token \in GoodTokens, userId \in Users}

DetailsStores ==
    {StoreOf(<<>>),
     StoreOf(<<Row("u1", <<Cement>>, "created", 0, 0)>>),
     StoreOf(<<Row("u1", <<Cement>>, "created", 0, 0),
               Row("u2", <<Sand>>, "completed", 0, 1),
               Row("u1", <<Sand, Gravel>>, "cancelled", 1, 1)>>)}

InitDetails ==
    /\ orders \in DetailsStores
    /\ now = MaxClock
    /\ op = "none"
    /\ res = [status |-> 0, code |-> "", data |-> <<>>]
    /\ published = <<>>
    /\ GatewayInit
    /\ jobs = <<>>
    /\ UsersInit

\* the order service answers the list call of a request: GET /api/v1/orders
\* with the identity headers of the call and no query
OrdersList(id) ==
    /\ Awaited(id, "orders")
    /\ up["orders"]
    /\ LET headers == calls[<<id, "orders">>].headers
           out == ListOrdersHandler(headers.userId, headers.roles, NoQuery)
           g == Settle(Current, id, "orders",
                       Responds(out.res.status,
                                Body(out.res.code,
                                     IF out.res.status = 200 THEN out.res.data[1].orders
                                     ELSE <<>>)))
       IN /\ circuits' = g.circuits
          /\ calls' = g.calls
          /\ replies' = g.replies
          /\ op' = "list"
          /\ res' = out.res
          /\ published' = out.published
    /\ UNCHANGED <<orders, now, jobs, up>>
    /\ UNCHANGED accounts

NextDetails ==
    \/ \E request \in DetailsRequests : Receive(request, MaxDetails)
    \/ \E id \in 1..MaxDetails, answer \in {Responds(200, Body("OK", "profile")),
                                            Responds(404, Body("USER_NOT_FOUND", ""))} :
          BackendAnswers(id, "users", answer.status, answer.data)
    \/ \E id \in 1..MaxDetails : OrdersList(id)
    \/ \E id \in 1..MaxDetails : BackendRefuses(id, "orders")
    \/ Crash("orders")
    \/ Recover("orders")

SpecDetails == InitDetails /\ [][NextDetails]_vars

\* The circuit of the orders backend while the backend answers, refuses,
\* stays silent and recovers.
BreakerRequests == {Request("listOrders", Bearer(UserToken), NoIdentity, "u1")}

BreakerAnswers ==
    {Responds(200, Body("OK", "")), Responds(500, Body("INTERNAL_ERROR", ""))}

Timers ==
    \/ Elapse
    \/ HalfOpenTimer("orders")
    \/ \E id \in 1..MaxRequests : TimeoutFires(id, "orders")

Backend ==
    \/ \E id \in 1..MaxRequests, answer \in BreakerAnswers :
          BackendAnswers(id, "orders", answer.status, answer.data)
    \/ \E id \in 1..MaxRequests : BackendRefuses(id, "orders")
    \/ \E id \in 1..MaxRequests, answer \in BreakerAnswers :
          LateAnswer(id, "orders", answer.status, answer.data)

NextBreaker ==
    \/ \E request \in BreakerRequests : Receive(request, MaxRequests)
    \/ Timers
    \/ Backend
    \/ Crash("orders")
    \/ Recover("orders")

SpecBreaker == Init /\ [][NextBreaker]_vars

\* The circuit through a failure and a recovery, where time passes, timers
\* fire, and each call in flight gets its answer, its refusal or its timeout.
NextRecovery ==
    \/ \E request \in BreakerRequests : Receive(request, MaxTrials)
    \/ Timers
    \/ Backend
    \/ Crash("orders")
    \/ Recover("orders")

SpecBreakerFair ==
    Init /\ [][NextRecovery]_vars /\ WF_vars(Timers \/ Backend)

\* Both circuits side by side: a profile route and an order route under
\* backends that answer, refuse, stay silent and recover.
SharedRequests ==
    {Request(name, Bearer(UserToken), NoIdentity, "u1") :
        name \in {"getProfile", "listOrders"}}

NextShared ==
    \/ \E request \in SharedRequests : Receive(request, MaxShared)
    \/ Elapse
    \/ \E b \in Backends : HalfOpenTimer(b)
    \/ \E id \in 1..MaxShared, b \in Backends : TimeoutFires(id, b)
    \/ \E id \in 1..MaxShared, b \in Backends, answer \in BreakerAnswers :
          BackendAnswers(id, b, answer.status, answer.data)
    \/ \E id \in 1..MaxShared, b \in Backends : BackendRefuses(id, b)
    \/ \E b \in Backends : Crash(b)
    \/ \E b \in Backends : Recover(b)

SpecShared == Init /\ [][NextShared]_vars

\* ---------------------------------------------------------------- claims

Absorbing == {"completed", "cancelled"}
Authenticated(c) == c[1] # NoUser
HoldsAdmin(c) == \E i \in DOMAIN c[2] : c[2][i] = "admin"
Owns(c, id) == Authenticated(c) /\ orders[id].userId = c[1]
Authorised(c, id) == Owns(c, id) \/ (Authenticated(c) /\ HoldsAdmin(c))
Stranger(c, id) == Authenticated(c) /\ ~Owns(c, id) /\ ~HoldsAdmin(c)

Get(c, id) == GetOrderHandler(c[1], c[2], id)
Patch(c, id, body) == UpdateStatusHandler(c[1], c[2], id, body)
Cancel(c, id) == CancelOrderHandler(c[1], c[2], id)

\* C1: once an order's status is completed or cancelled, no step of the
\* service (create, status update, cancel by any caller) changes it again.
C1_AbsorbingStatuses ==
    [][\A id \in DOMAIN orders :
          orders[id].status \in Absorbing =>
              id \in DOMAIN orders' /\ orders'[id].status = orders[id].status]_vars

\* a status update of an order in an absorbing status was refused
C1_Witness ==
    /\ op = "patch"
    /\ res.code = "INVALID_STATUS_TRANSITION"
    /\ \E id \in DOMAIN orders : orders[id].status \in Absorbing

\* C2: read-single, status update and cancel of an existing order by a caller
\* who is neither its owner nor an admin answer 403 FORBIDDEN, whatever the
\* body and the order's status.
C2_StrangerForbidden ==
    [][\A id \in DOMAIN orders : \A c \in Callers :
          /\ Stranger(c, id)
          /\ \/ GetOrder(c[1], c[2], id)
             \/ CancelOrder(c[1], c[2], id)
             \/ \E body \in PatchBodies : UpdateStatus(c[1], c[2], id, body)
          => res'.status = 403 /\ res'.code = "FORBIDDEN"]_vars

\* C3: the owner and an admin are never answered FORBIDDEN: read-single gives
\* 200 with the order, and a status update with a valid target, or a cancel,
\* is applied when the order is created or in_progress.
C3_OwnerOrAdminAllowed ==
    \A id \in DOMAIN orders : \A c \in Callers :
        Authorised(c, id) =>
            /\ Get(c, id).res = [status |-> 200, code |-> "OK", data |-> <<orders[id]>>]
            /\ Cancel(c, id).res.status # 403
            /\ \A body \in PatchBodies : Patch(c, id, body).res.status # 403
            /\ orders[id].status \notin Absorbing =>
                  /\ Cancel(c, id).res.status = 200
                  /\ Cancel(c, id).orders[id].status = "cancelled"
                  /\ \A s \in Statuses :
                        /\ Patch(c, id, [status |-> s]).res.status = 200
                        /\ Patch(c, id, [status |-> s]).orders[id].status = s

\* an order of u1 in status created was cancelled by the admin u2
C3_Witness ==
    /\ op = "delete"
    /\ res.status = 200
    /\ published # <<>>
    /\ published[1].by = "u2"
    /\ published[1].oldStatus = "created"
    /\ \E id \in DOMAIN orders :
          /\ orders[id].userId = "u1"
          /\ orders[id].status = "cancelled"
          /\ res.data = <<orders[id]>>

\* C4: an identifier that is not in the store gives 404 ORDER_NOT_FOUND on
\* read-single, status update and cancel, for every caller and every body
\* (NotFound before Forbidden and before ValidationError).
C4_NotFoundFirst ==
    [][\A id \in RequestIds \ DOMAIN orders : \A c \in Callers :
          /\ Authenticated(c)
          /\ \/ GetOrder(c[1], c[2], id)
             \/ CancelOrder(c[1], c[2], id)
             \/ \E body \in PatchBodies : UpdateStatus(c[1], c[2], id, body)
          => res'.status = 404 /\ res'.code = "ORDER_NOT_FOUND"]_vars

\* the sum over the items of quantity times price, in thousandths
RECURSIVE SumOfItems(_)
SumOfItems(items) ==
    IF items = <<>> THEN 0
    ELSE (Head(items).quantity \div 1000) * Head(items).price + SumOfItems(Tail(items))

\* C5: in every reachable state (so also after later status updates and
\* cancels) an order's totalAmount is the sum over its items of quantity
\* times price rounded to 2 decimals: a whole number of hundredths at most
\* half a hundredth from the sum.
C5_TotalIsSumOfItems ==
    \A id \in DOMAIN orders :
        /\ orders[id].totalAmount % 10 = 0
        /\ orders[id].totalAmount - SumOfItems(orders[id].items) \in -5..5

\* an order whose sum 450.625 is not a whole number of hundredths, after a
\* status update or a cancel; and the order of QUICK_TEST.md
C5_Witness ==
    /\ op \in {"patch", "delete"}
    /\ res.status = 200
    /\ res.data[1].items = <<Sand, Gravel>>
    /\ res.data[1].totalAmount = 450630
    /\ res.data[1].updatedAt > res.data[1].createdAt

C5_WitnessCement ==
    \E id \in DOMAIN orders :
        /\ orders[id].items = <<Cement>>
        /\ orders[id].totalAmount = 17500000
        /\ orders[id].status = "completed"

RejectionCodes == {"UNAUTHORIZED", "ORDER_NOT_FOUND", "FORBIDDEN", "VALIDATION_ERROR",
                   "INVALID_STATUS_TRANSITION", "CANNOT_CANCEL_COMPLETED",
                   "ALREADY_CANCELLED"}
Unchanged(out) == out.orders = orders /\ out.published = <<>>

\* C6: a rejected status update or cancel leaves the whole store as it was
\* (status and updatedAt of the target included) and publishes no event; a
\* status update of a cancelled order to in_progress is rejected with
\* INVALID_STATUS_TRANSITION.
C6_RejectionChangesNothing ==
    /\ \A id \in RequestIds : \A c \in Callers :
          /\ Cancel(c, id).res.status # 200 =>
                Cancel(c, id).res.code \in RejectionCodes /\ Unchanged(Cancel(c, id))
          /\ \A body \in PatchBodies :
                Patch(c, id, body).res.status # 200 =>
                    /\ Patch(c, id, body).res.code \in RejectionCodes
                    /\ Unchanged(Patch(c, id, body))
    /\ \A id \in DOMAIN orders : \A c \in Callers :
          Authorised(c, id) /\ orders[id].status = "cancelled" =>
              /\ Patch(c, id, [status |-> "in_progress"]).res.code
                    = "INVALID_STATUS_TRANSITION"
              /\ Unchanged(Patch(c, id, [status |-> "in_progress"]))
    /\ op \in {"patch", "delete"} /\ res.status # 200 => published = <<>>

\* a status update of a cancelled order was rejected, later than the order's
\* last change
C6_Witness ==
    /\ op = "patch"
    /\ res.code = "INVALID_STATUS_TRANSITION"
    /\ published = <<>>
    /\ \E id \in DOMAIN orders :
          orders[id].status = "cancelled" /\ orders[id].updatedAt < now

\* C7: flat transition policy: a status update by the owner or an admin of an
\* order that is created or in_progress, to any of the four statuses, is
\* accepted in one step and sets the status to the target.
C7_FlatTransitions ==
    \A id \in DOMAIN orders : \A c \in Callers : \A s \in Statuses :
        orders[id].status \in {"created", "in_progress"} /\ Authorised(c, id) =>
            LET out == Patch(c, id, [status |-> s]) IN
            /\ out.res.status = 200
            /\ out.res.data = <<out.orders[id]>>
            /\ out.orders = [orders EXCEPT ![id].status = s, ![id].updatedAt = now]
            /\ out.published
                  = <<Event("ORDER_STATUS_UPDATED", id, orders[id].status, s, c[1])>>

\* created went directly to completed
C7_Witness ==
    /\ op = "patch"
    /\ published # <<>>
    /\ published[1].oldStatus = "created"
    /\ published[1].newStatus = "completed"

\* in_progress went back to created
C7_WitnessBack ==
    /\ op = "patch"
    /\ published # <<>>
    /\ published[1].oldStatus = "in_progress"
    /\ published[1].newStatus = "created"

\* C8: a cancel by the owner or an admin sets created and in_progress orders
\* to cancelled, fails with CANNOT_CANCEL_COMPLETED on a completed order and
\* with ALREADY_CANCELLED on a cancelled one; after a cancel that succeeded,
\* a cancel of the same order by any caller fails.
C8_CancelOutcomes ==
    /\ \A id \in DOMAIN orders : \A c \in Callers :
          /\ Authorised(c, id) =>
                CASE orders[id].status = "completed" ->
                        /\ Cancel(c, id).res.status = 400
                        /\ Cancel(c, id).res.code = "CANNOT_CANCEL_COMPLETED"
                  [] orders[id].status = "cancelled" ->
                        /\ Cancel(c, id).res.status = 400
                        /\ Cancel(c, id).res.code = "ALREADY_CANCELLED"
                  [] OTHER ->
                        /\ Cancel(c, id).res.status = 200
                        /\ Cancel(c, id).orders[id].status = "cancelled"
          /\ orders[id].status = "cancelled" => Cancel(c, id).res.status # 200
    /\ op = "delete" /\ res.status = 200 =>
          /\ Len(res.data) = 1
          /\ res.data[1].id \in DOMAIN orders
          /\ orders[res.data[1].id].status = "cancelled"

\* a second cancel was refused
C8_Witness ==
    /\ op = "delete"
    /\ res.status = 400
    /\ res.code = "ALREADY_CANCELLED"

\* C9 as stated: a status update of a completed or cancelled order to its own
\* status, by the owner or an admin, succeeds and leaves every field of the
\* record as it was.
C9_SameStatusIsNoOp ==
    [][\A id \in DOMAIN orders : \A c \in Callers :
          /\ Authorised(c, id)
          /\ orders[id].status \in Absorbing
          /\ UpdateStatus(c[1], c[2], id, [status |-> orders[id].status])
          => res'.status = 200 /\ orders' = orders]_vars

\* C9 amended: such an update succeeds, publishes ORDER_STATUS_UPDATED and
\* leaves every field but updatedAt as it was; updatedAt becomes the time of
\* the call; a cancel of a cancelled order is rejected.
C9_SameStatusTouchesUpdatedAt ==
    \A id \in DOMAIN orders : \A c \in Callers :
        Authorised(c, id) /\ orders[id].status \in Absorbing =>
            LET out == Patch(c, id, [status |-> orders[id].status]) IN
            /\ out.res.status = 200
            /\ out.orders = [orders EXCEPT ![id].updatedAt = now]
            /\ out.published
                  = <<Event("ORDER_STATUS_UPDATED", id, orders[id].status,
                            orders[id].status, c[1])>>
            /\ orders[id].status = "cancelled" =>
                  Cancel(c, id).res.code = "ALREADY_CANCELLED"

\* a cancelled order was updated to cancelled, which moved its updatedAt
C9_Witness ==
    /\ op = "patch"
    /\ res.status = 200
    /\ published # <<>>
    /\ published[1].oldStatus = "cancelled"
    /\ published[1].newStatus = "cancelled"
    /\ \E id \in DOMAIN orders :
          orders[id].updatedAt = now /\ orders[id].createdAt < now

\* C10: a status update whose target is not one of the four statuses is
\* answered 400 VALIDATION_ERROR and stores nothing, and every stored order's
\* status is one of the four.
C10_StatusEnum ==
    /\ \A id \in DOMAIN orders : orders[id].status \in Statuses
    /\ \A id \in RequestIds : \A c \in Callers : \A body \in PatchBodies :
          Authenticated(c) /\ body.status \notin Statuses =>
              /\ Patch(c, id, body).res.status = 400
              /\ Patch(c, id, body).res.code = "VALIDATION_ERROR"
              /\ Unchanged(Patch(c, id, body))

\* a status update of an existing order with a status outside the enum was
\* answered VALIDATION_ERROR
C10_Witness ==
    /\ op = "patch"
    /\ res.code = "VALIDATION_ERROR"
    /\ orders # <<>>

\* C11: a create whose item sequence is invalid (empty, more than 100 items,
\* an item with an empty or over-long product, a quantity that is not a
\* positive integer, a price that is not positive) is answered 400
\* VALIDATION_ERROR, stores no order and publishes no event.
C11_InvalidCreateRejected ==
    /\ \A c \in Callers : \A items \in InvalidItemLists : \A t \in Later :
          Authenticated(c) =>
              LET out == CreateOrderHandler(c[1], c[2], [items |-> items], t) IN
              /\ out.res = [status |-> 400, code |-> "VALIDATION_ERROR", data |-> <<>>]
              /\ Unchanged(out)
    /\ op = "create" /\ res.status # 201 => published = <<>>

\* a create was answered VALIDATION_ERROR while the store held two orders
C11_Witness ==
    /\ op = "create"
    /\ res.status = 400
    /\ res.code = "VALIDATION_ERROR"
    /\ published = <<>>
    /\ Cardinality(DOMAIN orders) = 2

\* C12: a create that succeeds adds exactly one order, under an identifier no
\* stored order has, owned by the caller and in status created, and leaves
\* every order stored before as it was.
C12_CreateAddsOneOrder ==
    \A c \in Callers : \A items \in PricedItemLists : \A t \in Later :
        Authenticated(c) =>
            LET out == CreateOrderHandler(c[1], c[2], [items |-> items], t)
                added == DOMAIN out.orders \ DOMAIN orders
            IN /\ out.res.status = 201
               /\ Cardinality(added) = 1
               /\ \A id \in added :
                     /\ out.orders[id].id = id
                     /\ out.orders[id].userId = c[1]
                     /\ out.orders[id].status = "created"
                     /\ out.orders[id].items = items
                     /\ out.res.data = <<out.orders[id]>>
               /\ \A id \in DOMAIN orders :
                     id \in DOMAIN out.orders /\ out.orders[id] = orders[id]

\* u2 created an order in a store that held three orders, one of them a
\* cancelled order of u1
C12_Witness ==
    /\ op = "create"
    /\ res.status = 201
    /\ res.data[1].userId = "u2"
    /\ res.data[1].status = "created"
    /\ Cardinality(DOMAIN orders) = 4
    /\ orders[res.data[1].id] = res.data[1]
    /\ \E id \in DOMAIN orders : orders[id].userId = "u1" /\ orders[id].status = "cancelled"

\* C13: no step changes the identifier, the owner, the items, the total or
\* the created-timestamp of a stored order, or removes it: a status update
\* and a cancel change status and updatedAt only.
C13_CreationFieldsKept ==
    [][\A id \in DOMAIN orders :
          /\ id \in DOMAIN orders'
          /\ orders[id].id = id
          /\ [orders'[id] EXCEPT !.status = orders[id].status,
                                 !.updatedAt = orders[id].updatedAt] = orders[id]]_vars

\* the admin u2 completed an order of u1 after the time of its creation
C13_Witness ==
    /\ op = "patch"
    /\ res.status = 200
    /\ published # <<>>
    /\ published[1].by = "u2"
    /\ published[1].newStatus = "completed"
    /\ res.data[1].userId = "u1"
    /\ res.data[1].createdAt < res.data[1].updatedAt
    /\ orders[res.data[1].id] = res.data[1]

List(c, query) == ListOrdersHandler(c[1], c[2], query)
ListedIds(data) == {data.orders[i].id : i \in DOMAIN data.orders}
VisibleIds(c) == {id \in DOMAIN orders : HoldsAdmin(c) \/ orders[id].userId = c[1]}

\* C14: what a list request returns is stored and visible to its caller: the
\* caller's own orders, or any order for an admin.  Without a status filter
\* the total counts exactly the visible orders, and a request whose page
\* holds them all returns each of them once.
C14_ListVisibility ==
    \A c \in Callers : \A query \in ListQueries :
        Authenticated(c) =>
            LET out == List(c, query)
                data == out.res.data[1]
            IN
            /\ out.res.status = 200
            /\ \A i \in DOMAIN data.orders :
                  /\ data.orders[i].id \in VisibleIds(c)
                  /\ data.orders[i] = orders[data.orders[i].id]
            /\ query.status \notin Statuses =>
                  /\ data.pagination.total = Cardinality(VisibleIds(c))
                  /\ query.page = <<>> /\ query.limit = <<>> =>
                        /\ ListedIds(data) = VisibleIds(c)
                        /\ Len(data.orders) = Cardinality(VisibleIds(c))

\* a caller without the admin role listed a store of three orders and got
\* the one that is theirs
C14_Witness ==
    /\ op = "list"
    /\ res.status = 200
    /\ Cardinality(DOMAIN orders) = 3
    /\ Cardinality({id \in DOMAIN orders : orders[id].userId = "u1"}) = 2
    /\ res.data[1].pagination.total = 1
    /\ Len(res.data[1].orders) = 1
    /\ res.data[1].orders[1].userId = "u2"
    /\ res.data[1].orders[1].status = "in_progress"

\* the admin listed a store of orders of both users and got them all
C14_WitnessAdmin ==
    /\ op = "list"
    /\ res.status = 200
    /\ res.data[1].pagination.total = 3
    /\ \E i, j \in DOMAIN res.data[1].orders :
          res.data[1].orders[i].userId = "u1" /\ res.data[1].orders[j].userId = "u2"

\* C15: with a status of the four, the result holds exactly the visible
\* orders in that status; with any other value, or none, the request is
\* answered 200 with the result of the request without a status.
C15_StatusFilter ==
    \A c \in Callers : \A query \in FilterQueries :
        Authenticated(c) =>
            LET out == List(c, query)
                data == out.res.data[1]
                matching == {id \in VisibleIds(c) : orders[id].status = query.status}
            IN /\ out.res.status = 200
               /\ query.status \in Statuses =>
                     /\ data.pagination.total = Cardinality(matching)
                     /\ ListedIds(data) \subseteq matching
                     /\ query.page = <<>> /\ query.limit = <<>> =>
                           /\ ListedIds(data) = matching
                           /\ Len(data.orders) = Cardinality(matching)
               /\ query.status \notin Statuses =>
                     out.res = List(c, [query EXCEPT !.status = ""]).res

\* a listing of the completed orders alone: one of the two orders of u2
C15_Witness ==
    /\ op = "list"
    /\ res.status = 200
    /\ Cardinality({id \in DOMAIN orders : orders[id].userId = "u2"}) = 2
    /\ \E id \in DOMAIN orders :
          orders[id].userId = "u2" /\ orders[id].status = "in_progress"
    /\ res.data[1].pagination.total = 1
    /\ Len(res.data[1].orders) = 1
    /\ res.data[1].orders[1].userId = "u2"
    /\ res.data[1].orders[1].status = "completed"
    /\ \E c \in Callers : \E query \in FilterQueries :
          query.status = "completed" /\ List(c, query).res = res

\* a request with status=shipped was answered with all the visible orders
C15_WitnessIgnored ==
    /\ op = "list"
    /\ res.status = 200
    /\ res.data[1].pagination.total = 3
    /\ \E c \in Callers : \E query \in FilterQueries :
          query.status = "shipped" /\ List(c, query).res = res

\* the decimal digits of a natural number, as a client writes them
RECURSIVE Decimal(_)
Decimal(n) ==
    LET digit == CHOOSE ch \in {"0", "1", "2", "3", "4", "5", "6", "7", "8", "9"} :
                     DigitValue(ch) = n % 10
    IN IF n < 10 THEN <<digit>> ELSE Append(Decimal(n \div 10), digit)

\* the number of records on the pages 1..last of a request, each asked for
\* in a request of its own
RECURSIVE PageSizes(_, _, _)
PageSizes(c, query, last) ==
    IF last = 0 THEN 0
    ELSE Len(List(c, [query EXCEPT !.page = Decimal(last)]).res.data[1].orders)
             + PageSizes(c, query, last - 1)

\* C16: in every list response totalPages is the ceiling of total / limit,
\* hasNext holds exactly when page < totalPages, hasPrev exactly when
\* page > 1, and the page holds at most limit records: limit of them while
\* limit more are left, else the rest; and for every caller and page size the
\* sizes of the pages 1..totalPages add up to total.
C16_PaginationConsistent ==
    /\ op = "list" /\ res.status = 200 =>
          LET p == res.data[1].pagination
              size == Len(res.data[1].orders)
          IN /\ p.totalPages * p.limit >= p.total
             /\ (p.totalPages - 1) * p.limit < p.total
             /\ p.hasNext <=> p.page < p.totalPages
             /\ p.hasPrev <=> p.page > 1
             /\ size <= p.limit
             /\ size = Max(0, Min(p.limit, p.total - (p.page - 1) * p.limit))
    /\ \A c \in Callers : \A limit \in {<<>>, <<"-", "5">>, <<"7", "p", "x">>} :
          Authenticated(c) =>
              LET query == [NoQuery EXCEPT !.limit = limit]
                  p == List(c, query).res.data[1].pagination
              IN PageSizes(c, query, p.totalPages) = p.total

\* page=1, limit=10 over 25 orders: 10 records, totalPages 3, a next page and
\* no previous one
C16_Witness ==
    /\ op = "list"
    /\ res.status = 200
    /\ Cardinality(DOMAIN orders) = 25
    /\ Len(res.data[1].orders) = 10
    /\ res.data[1].pagination
          = [page |-> 1, limit |-> 10, total |-> 25, totalPages |-> 3,
             hasNext |-> TRUE, hasPrev |-> FALSE]

\* the last page, the third of three, with the remaining 4 of 18 orders
C16_WitnessLast ==
    /\ op = "list"
    /\ res.status = 200
    /\ Len(res.data[1].orders) = 4
    /\ res.data[1].pagination
          = [page |-> 3, limit |-> 7, total |-> 18, totalPages |-> 3,
             hasNext |-> FALSE, hasPrev |-> TRUE]

\* C17: whatever page and limit a request carries (none, zero, a negative
\* number, no number at all, a number above 100), the page number used is at
\* least 1 and the page size lies in 1..100; page is 1 and limit is 10 when
\* the parameter is missing or holds no number.
C17_PagingNormalised ==
    /\ \A query \in PageQueries :
          /\ Page(query) >= 1
          /\ Limit(query) \in 1..100
          /\ query.page = <<>> \/ ParseInt(query.page).nan => Page(query) = 1
          /\ query.limit = <<>> \/ ParseInt(query.limit).nan => Limit(query) = 10
          /\ LET p == ListOrdersHandler("u2", <<>>, query).res.data[1].pagination
             IN p.page = Page(query) /\ p.limit = Limit(query)
    /\ op = "list" /\ res.status = 200 =>
          /\ res.data[1].pagination.page >= 1
          /\ res.data[1].pagination.limit \in 1..100

\* a request with limit=101 and page=-3 was answered with page 1 of size 100
C17_Witness ==
    /\ op = "list"
    /\ res.status = 200
    /\ res.data[1].pagination.page = 1
    /\ res.data[1].pagination.limit = 100
    /\ Len(res.data[1].orders) = 25
    /\ \E c \in Callers :
          List(c, Query(<<"-", "3">>, <<"1", "0", "1">>, "", "", "")).res = res

\* the pages 1..last of a request one after the other, each asked for in a
\* request of its own
RECURSIVE AllPages(_, _, _)
AllPages(c, query, last) ==
    IF last = 0 THEN <<>>
    ELSE AllPages(c, query, last - 1)
             \o List(c, [query EXCEPT !.page = Decimal(last)]).res.data[1].orders

\* a field of an order as a number that grows with the field
FieldRank(order, field) ==
    CASE field = "createdAt" -> order.createdAt
      [] field = "updatedAt" -> order.updatedAt
      [] field = "totalAmount" -> order.totalAmount
      [] field = "status" -> StringRank(order.status)
      [] field = "userId" -> StringRank(order.userId)

C18_WitnessDefault ==
    /\ op = "list"
    /\ res.status = 200
    /\ Len(res.data[1].orders) >= 2
    /\ res.data[1].orders[1].createdAt > res.data[1].orders[2].createdAt
    /\ List(<<"u2", <<"user", "admin">>>>, NoQuery).res = res

\* C19: a list request and a read of one order leave the store as it was and
\* publish no event, and the list request repeated on the store it left
\* returns the same result.
C19_ReadsChangeNothing ==
    /\ \A c \in Callers : \A query \in ListQueries :
          LET out == List(c, query) IN
          /\ Unchanged(out)
          /\ Authenticated(c) => out.res.data = <<ListData(out.orders, c[1], c[2], query)>>
    /\ \A c \in Callers : \A id \in 1..(MaxListed + 1) : Unchanged(Get(c, id))
    /\ op \in {"list", "get"} => published = <<>>

\* a list request answered with orders of both users, among them one whose
\* updatedAt lies before the time of the request
C19_Witness ==
    /\ op = "list"
    /\ res.status = 200
    /\ published = <<>>
    /\ Len(res.data[1].orders) >= 2
    /\ \E i, j \in DOMAIN res.data[1].orders :
          /\ res.data[1].orders[i].userId = "u1"
          /\ res.data[1].orders[j].userId = "u2"
          /\ res.data[1].orders[i].updatedAt < now
          /\ orders[res.data[1].orders[i].id] = res.data[1].orders[i]

\* C20: after a create, a status update (one to the current status included)
\* or a cancel that succeeded, the order's updatedAt is the time of the call
\* and exactly one event was published: ORDER_CREATED, ORDER_STATUS_UPDATED
\* or ORDER_CANCELLED, with the order's identifier.
C20_MutationStampsAndPublishes ==
    /\ op \in {"create", "patch", "delete"} /\ res.status \in {200, 201} =>
          /\ Len(res.data) = 1
          /\ orders[res.data[1].id] = res.data[1]
          /\ Len(published) = 1
          /\ published[1].orderId = res.data[1].id
          /\ published[1].type = CASE op = "create" -> "ORDER_CREATED"
                                    [] op = "patch" -> "ORDER_STATUS_UPDATED"
                                    [] op = "delete" -> "ORDER_CANCELLED"
    /\ \A c \in Callers : \A t \in Later :
          LET out == CreateOrderHandler(c[1], c[2], [items |-> <<Cement>>], t) IN
          out.res.status = 201 =>
              /\ out.now = t
              /\ out.res.data[1].updatedAt = t
              /\ Len(out.published) = 1
              /\ out.published[1].type = "ORDER_CREATED"
              /\ out.published[1].orderId = out.res.data[1].id
    /\ \A id \in DOMAIN orders : \A c \in Callers :
          /\ \A status \in Statuses :
                LET out == Patch(c, id, [status |-> status]) IN
                /\ Authorised(c, id) /\ status = orders[id].status => out.res.status = 200
                /\ out.res.status = 200 =>
                      /\ out.orders[id].updatedAt = now
                      /\ Len(out.published) = 1
                      /\ out.published[1].type = "ORDER_STATUS_UPDATED"
                      /\ out.published[1].orderId = id
          /\ LET out == Cancel(c, id) IN
             out.res.status = 200 =>
                 /\ out.orders[id].updatedAt = now
                 /\ Len(out.published) = 1
                 /\ out.published[1].type = "ORDER_CANCELLED"
                 /\ out.published[1].orderId = id

\* an order in_progress was updated to in_progress at a later time
C20_Witness ==
    /\ op = "patch"
    /\ res.status = 200
    /\ Len(published) = 1
    /\ published[1].oldStatus = "in_progress"
    /\ published[1].newStatus = "in_progress"
    /\ res.data[1].createdAt < res.data[1].updatedAt

\* an order was cancelled and ORDER_CANCELLED was published
C20_WitnessCancel ==
    /\ op = "delete"
    /\ res.status = 200
    /\ published = <<Event("ORDER_CANCELLED", res.data[1].id, "in_progress", "cancelled",
                            res.data[1].userId)>>

\* ---------------------------------------------------------------- gateway claims

\* the routes behind authMiddleware, and those among them that proxy one call
ProtectedRoutes ==
    {"getProfile", "putProfile", "listUsers", "createOrder", "listOrders",
     "getOrder", "updateStatus", "cancelOrder", "details"}
IdentityRoutes ==
    {"getProfile", "putProfile", "createOrder", "listOrders", "getOrder",
     "updateStatus", "cancelOrder"}

\* the request carries no bearer token, or one that is no valid token
Unverified(request) ==
    \/ request.authorization.scheme # "Bearer "
    \/ request.authorization.token \in BadTokens

\* the gateway after the request, were it to arrive now
Received(request) == Handle(Current, NextId, request)

\* the request started no backend call and left the circuits as they were
NoBackendCall(g) == g.calls = calls /\ g.circuits = circuits

\* C21: on every protected route a request without a bearer token, or with a
\* malformed, wrongly signed or expired one, is answered 401, starts no
\* backend call and leaves every circuit and its counters unchanged.
C21_UnauthenticatedStopsAtGateway ==
    \A request \in Requests :
        request.route \in ProtectedRoutes /\ Unverified(request) =>
            LET g == Received(request)
            IN /\ g.replies[NextId].status = 401
               /\ g.replies[NextId].data.code \in {"UNAUTHORIZED", "INVALID_TOKEN"}
               /\ NoBackendCall(g)

\* a request on an order route was answered 401 for its token, with no call
C21_Witness ==
    \E id \in DOMAIN replies :
        /\ replies[id].route = "cancelOrder"
        /\ replies[id].status = 401
        /\ replies[id].data.code = "INVALID_TOKEN"
        /\ Legs(Current, id) = {}
        /\ circuits["orders"] = NewCircuit

\* C22: on the admin-only user list an unauthenticated request gets 401, an
\* authenticated caller without the admin role gets 403 FORBIDDEN with no
\* backend call, and a caller with the role is forwarded to the users backend.
C22_RoleGuardAfterAuthentication ==
    \A request \in Requests :
        request.route = "listUsers" =>
            LET g == Received(request)
                token == request.authorization.token
            IN /\ Unverified(request) => g.replies[NextId].status = 401
               /\ ~Unverified(request) /\ ~Includes(token.roles, "admin") =>
                    /\ g.replies[NextId].status = 403
                    /\ g.replies[NextId].data.code = "FORBIDDEN"
                    /\ NoBackendCall(g)
               /\ ~Unverified(request) /\ Includes(token.roles, "admin") =>
                    /\ Legs(g, NextId) = {"users"}
                    /\ g.calls[<<NextId, "users">>].sends = 1

\* a caller without the admin role was refused on the user list
C22_Witness ==
    \E id \in DOMAIN replies :
        /\ replies[id].route = "listUsers"
        /\ replies[id].status = 403
        /\ Legs(Current, id) = {}

\* a caller with the admin role was forwarded and answered
C22_WitnessForwarded ==
    \E id \in DOMAIN replies :
        /\ replies[id].route = "listUsers"
        /\ replies[id].status = 200
        /\ calls[<<id, "users">>].sends = 1

\* C23: a request forwarded on a protected order or profile route reaches the
\* backend with the subject and roles of its verified token as identity
\* headers, whatever identity headers the client sent itself.
C23_IdentityFromTokenOnly ==
    \A request \in Requests :
        request.route \in IdentityRoutes /\ ~Unverified(request) =>
            LET g == Received(request)
                token == request.authorization.token
                backend == Routes[request.route].backend
            IN /\ Legs(g, NextId) = {backend}
               /\ g.calls[<<NextId, backend>>].headers =
                      IdentityHeaders(token.userId, token.roles)
               /\ \A claimed \in ClaimedIdentities :
                      Received([request EXCEPT !.claimed = claimed]) = g

\* an order was created through the gateway in the name of the token's user
C23_Witness ==
    \E id \in DOMAIN replies :
        /\ replies[id].route = "createOrder"
        /\ <<id, "orders">> \in DOMAIN calls
        /\ calls[<<id, "orders">>].sends = 1
        /\ calls[<<id, "orders">>].headers = IdentityHeaders("u1", <<"user">>)

\* the routes that proxy one backend call
ProxyRoutes == RouteNames \ {"details"}

\* C24: the answer of a backend to a forwarded call, whatever its status,
\* becomes the gateway's response: the same status and the same body.
C24_AnswerRelayed ==
    \A k \in DOMAIN calls, answer \in Answers :
        calls[k].phase = "sent" /\ replies[k[1]].route \in ProxyRoutes =>
            LET g == Settle(Current, k[1], k[2], answer)
            IN /\ g.replies[k[1]].status = answer.status
               /\ g.replies[k[1]].data = answer.data

\* a backend's 500 was relayed to the client
C24_Witness ==
    \E id \in DOMAIN replies :
        /\ replies[id].route = "getOrder"
        /\ replies[id].status = 500
        /\ replies[id].data = Body("INTERNAL_ERROR", "")
        /\ calls[<<id, "orders">>].phase = "settled"
        /\ calls[<<id, "orders">>].sends = 1

\* the circuit of the orders backend, and the calls sent to that backend
ordersCircuit == circuits["orders"]
FailedPhases == {"thrown", "late", "dropped"}
InFlight == {k \in DOMAIN calls : calls[k].phase = "sent"}

\* a call to the orders backend fails in this step: refused, or timed out
CallFails ==
    \E id \in 1..MaxRequests :
        BackendRefuses(id, "orders") \/ TimeoutFires(id, "orders")

\* the orders backend answers a call in this step, with whatever status
CallSucceeds ==
    \E id \in 1..MaxRequests, answer \in BreakerAnswers :
        BackendAnswers(id, "orders", answer.status, answer.data)

\* the fallback answer on behalf of the orders backend
Unavailable(route) ==
    Reply(route, Result(503, Body("SERVICE_UNAVAILABLE", "orders")))

\* C25: a circuit starts CLOSED; while CLOSED it sends every call to the
\* backend; it leaves CLOSED only for OPEN, and that exactly in a step in
\* which a call fails or times out and the failures then exceed 50% of the
\* calls of the window, the minimum volume being reached; an answered call
\* never opens it.
C25_OpensOnThresholdOnly ==
    /\ circuits = [b \in Backends |-> NewCircuit]
    /\ NewCircuit.state = "CLOSED"
    /\ [][ordersCircuit.state = "CLOSED" =>
            LET after == circuits'["orders"]
                failures == Total(after.failures)
                fires == Total(after.fires)
            IN /\ \A request \in BreakerRequests :
                      LET g == Received(request)
                      IN /\ g.calls[<<NextId, "orders">>].phase = "sent"
                         /\ g.calls[<<NextId, "orders">>].sends = 1
               /\ after.state \in {"CLOSED", "OPEN"}
               /\ after.state = "OPEN" <=>
                      /\ CallFails
                      /\ fires >= MinimumVolume
                      /\ failures * 100 > 50 * fires
               /\ CallSucceeds => after.state = "CLOSED"
               /\ failures <= Cardinality({k \in DOMAIN calls' :
                                              calls'[k].phase \in FailedPhases})]_vars

\* the circuit opened on the second failure of three calls in the window
C25_Witness ==
    /\ ordersCircuit.state = "OPEN"
    /\ Total(ordersCircuit.fires) = 3
    /\ Total(ordersCircuit.failures) = 2

\* one failure of two calls is not more than half: the circuit stays CLOSED
C25_WitnessClosed ==
    /\ ordersCircuit.state = "CLOSED"
    /\ Total(ordersCircuit.fires) = 2
    /\ Total(ordersCircuit.failures) = 1

\* C26: while the circuit of a backend is OPEN, every request for that
\* backend is answered with the fallback, 503 SERVICE_UNAVAILABLE naming the
\* backend, and no request is sent to the backend.
C26_OpenAnswersFallback ==
    ordersCircuit.state = "OPEN" =>
        \A request \in BreakerRequests :
            LET g == Received(request)
            IN /\ g.replies[NextId] = Unavailable(request.route)
               /\ g.calls[<<NextId, "orders">>].sends = 0
               /\ g.calls[<<NextId, "orders">>].phase = "settled"
               /\ \A k \in DOMAIN calls : g.calls[k] = calls[k]

\* a request that arrived at the open circuit was answered with the fallback
C26_Witness ==
    /\ ordersCircuit.state = "OPEN"
    /\ \E id \in DOMAIN replies :
          /\ replies[id] = Unavailable("listOrders")
          /\ calls[<<id, "orders">>].sends = 0

\* the trial calls of the orders circuit that are in flight
Trials == {k \in InFlight : calls[k].trial}

\* C27: in HALF_OPEN one call, the trial, is sent to the backend and the
\* calls that arrive while it is in flight get the fallback; an answer to the
\* trial closes the circuit with its counters reset, its failure or timeout
\* opens the circuit again with the whole cool-down ahead.
C27_HalfOpenTrial ==
    [][ordersCircuit.state = "HALF_OPEN" =>
          /\ InFlight = Trials
          /\ Cardinality(Trials) <= 1
          /\ ordersCircuit.trial <=> Trials # {}
          /\ \A request \in BreakerRequests :
                LET g == Received(request)
                    leg == g.calls[<<NextId, "orders">>]
                IN IF Trials = {}
                   THEN leg.phase = "sent" /\ leg.sends = 1 /\ leg.trial
                   ELSE /\ leg.sends = 0
                        /\ g.replies[NextId] = Unavailable(request.route)
                        /\ g.circuits = circuits
          /\ CallSucceeds => circuits'["orders"] = NewCircuit
          /\ CallFails =>
                /\ circuits'["orders"].state = "OPEN"
                /\ circuits'["orders"].cooldown * Step = 30000]_vars

\* a request arrived while the trial was in flight and got the fallback
C27_Witness ==
    /\ ordersCircuit.state = "HALF_OPEN"
    /\ Trials # {}
    /\ \E id \in DOMAIN replies :
          /\ replies[id] = Unavailable("listOrders")
          /\ calls[<<id, "orders">>].sends = 0
          /\ \E k \in Trials : k[1] < id

\* the trial was answered and the circuit is closed again, its counters reset
C27_WitnessClosed ==
    /\ ordersCircuit = NewCircuit
    /\ \E k \in DOMAIN calls : calls[k].trial /\ calls[k].phase = "settled"

\* the trial failed and the circuit is open again
C27_WitnessReopened ==
    /\ ordersCircuit.state = "OPEN"
    /\ \E k \in DOMAIN calls : calls[k].trial /\ calls[k].phase \in FailedPhases

\* C28: a circuit that opens has the whole cool-down of 30 s ahead; the
\* cool-down only runs down with time, the circuit leaves OPEN only for
\* HALF_OPEN and only when the cool-down is over, and time does not pass
\* that moment without it. If timers fire, every OPEN circuit becomes
\* HALF_OPEN, and a trial call in flight within its timeout to a backend
\* that is up again closes the circuit unless the backend goes down anew.
C28_CoolDownThenHalfOpen ==
    /\ [][LET before == ordersCircuit
              after == circuits'["orders"]
          IN /\ before.state # "OPEN" /\ after.state = "OPEN" =>
                    after.cooldown * Step = 30000
             /\ before.state = "OPEN" =>
                    /\ after.state \in {"OPEN", "HALF_OPEN"}
                    /\ after.state = "HALF_OPEN" <=>
                           before.cooldown = 0 /\ HalfOpenTimer("orders")
                    /\ after.cooldown \in {before.cooldown, before.cooldown - 1}
                    /\ after.cooldown # before.cooldown <=> Elapse
                    /\ before.cooldown = 0 => ~Elapse]_vars
    /\ (ordersCircuit.state = "OPEN") ~> (ordersCircuit.state = "HALF_OPEN")
    /\ (/\ ordersCircuit.state = "HALF_OPEN"
        /\ up["orders"]
        /\ \E k \in Trials : ~Due(calls[k]))
           ~> (ordersCircuit.state = "CLOSED" \/ ~up["orders"])

\* the circuit is HALF_OPEN after a cool-down that outlasted the window
C28_Witness ==
    /\ ordersCircuit.state = "HALF_OPEN"
    /\ Total(ordersCircuit.fires) = 0
    /\ \E k \in DOMAIN calls : calls[k].phase \in FailedPhases

\* the cool-down of the open circuit is over and its timer is due
C28_WitnessDue == ordersCircuit.state = "OPEN" /\ ordersCircuit.cooldown = 0

\* C29: no call is awaited for more than the timeout of 5 s; the timeout of a
\* call adds one failure to the counters of its circuit, none to its calls,
\* and answers the request with the fallback; the answer of the backend to
\* a call that has timed out changes no response and no circuit.
C29_TimeoutFailsOnce ==
    [][/\ \A k \in DOMAIN calls' :
              calls'[k].phase = "sent" => calls'[k].age * Step <= 5000
       /\ \A id \in 1..MaxRequests :
              TimeoutFires(id, "orders") =>
                  /\ calls[<<id, "orders">>].age * Step >= 5000
                  /\ Total(circuits'["orders"].failures) =
                         Total(ordersCircuit.failures) + 1
                  /\ Total(circuits'["orders"].fires) = Total(ordersCircuit.fires)
                  /\ replies'[id] = Unavailable(replies[id].route)
                  /\ calls'[<<id, "orders">>].sends = 1
       /\ \A id \in 1..MaxRequests, answer \in BreakerAnswers :
              LateAnswer(id, "orders", answer.status, answer.data) =>
                  /\ replies' = replies
                  /\ circuits' = circuits
                  /\ replies[id] = Unavailable(replies[id].route)]_vars

\* the backend answered a call after its timeout: the request keeps the
\* fallback it was answered with
C29_Witness ==
    \E id \in DOMAIN replies :
        /\ calls[<<id, "orders">>].phase = "dropped"
        /\ calls[<<id, "orders">>].age * Step = 5000
        /\ replies[id] = Unavailable("listOrders")

\* C30: a request forwarded by a proxy route makes one call of its circuit,
\* and the call sends at most one request to the backend, whether it is
\* answered, fails or times out.
C30_NoRetry ==
    \A id \in DOMAIN replies :
        /\ Legs(Current, id) = {"orders"}
        /\ calls[<<id, "orders">>].sends <= 1
        /\ calls[<<id, "orders">>].phase # "settled" =>
               calls[<<id, "orders">>].sends = 1

\* one request was refused by the backend, another timed out, each after a
\* single request to the backend
C30_Witness ==
    \E i, j \in DOMAIN replies :
        /\ calls[<<i, "orders">>].phase = "thrown"
        /\ calls[<<i, "orders">>].sends = 1
        /\ calls[<<j, "orders">>].phase = "late"
        /\ calls[<<j, "orders">>].sends = 1

\* C31: a forwarded call that got no answer from the backend, refused or
\* timed out, in whatever state of the circuit, is answered with 503
\* SERVICE_UNAVAILABLE; a 500 is only ever the backend's own answer.
C31_FailureIsUnavailable ==
    \A id \in DOMAIN replies :
        LET leg == calls[<<id, "orders">>]
        IN /\ leg.phase \in FailedPhases =>
                  /\ replies[id] = Unavailable(replies[id].route)
                  /\ replies[id].data.code # "INTERNAL_ERROR"
           /\ replies[id].status = 500 =>
                  /\ leg.phase = "settled"
                  /\ leg.sends = 1
                  /\ leg.result.status = 500

\* a trial call was refused, another call timed out: both got the 503
C31_Witness ==
    \E i, j \in DOMAIN replies :
        /\ calls[<<i, "orders">>].phase = "thrown"
        /\ calls[<<i, "orders">>].trial
        /\ replies[i] = Unavailable("listOrders")
        /\ calls[<<j, "orders">>].phase \in {"late", "dropped"}
        /\ replies[j] = Unavailable("listOrders")

\* the calls to the orders backend that got no answer
Unanswered == {k \in DOMAIN calls : calls[k].phase \in FailedPhases}

\* C34: an answer of the backend, 4xx and 5xx included, adds nothing to the
\* failures of its circuit and never opens it; the failures counted are
\* calls without an answer, each counted once, so a circuit whose backend
\* answered every call is CLOSED with no failure counted.
C34_ErrorStatusIsSuccess ==
    /\ [](/\ Total(ordersCircuit.failures) <= Cardinality(Unanswered)
          /\ Unanswered = {} => ordersCircuit.state = "CLOSED")
    /\ [][/\ CallSucceeds =>
                /\ Total(circuits'["orders"].failures) = Total(ordersCircuit.failures)
                /\ ordersCircuit.state = "CLOSED" => circuits'["orders"].state = "CLOSED"
          /\ CallFails =>
                Total(circuits'["orders"].failures) =
                    Total(ordersCircuit.failures) + 1]_vars

\* the backend answered three calls in a row with 500: the circuit is CLOSED
C34_Witness ==
    /\ ordersCircuit.state = "CLOSED"
    /\ Total(ordersCircuit.fires) = 3
    /\ Total(ordersCircuit.failures) = 0
    /\ \A id \in 1..3 :
          /\ id \in DOMAIN replies
          /\ replies[id].status = 500
          /\ calls[<<id, "orders">>].phase = "settled"

\* the backend a request is meant for
Target(request) == IF request.route = "listOrders" THEN "orders" ELSE "users"

\* a call to the backend gets its outcome in this step
Outcome_Of(b) ==
    \E id \in 1..MaxShared :
        \/ BackendRefuses(id, b)
        \/ TimeoutFires(id, b)
        \/ \E answer \in BreakerAnswers :
              BackendAnswers(id, b, answer.status, answer.data)

\* a request for the backend arrives in this step
Arrival_For(b) ==
    \E request \in SharedRequests :
        Target(request) = b /\ Receive(request, MaxShared)

CircuitEdges ==
    {<<"CLOSED", "OPEN">>, <<"OPEN", "HALF_OPEN">>, <<"HALF_OPEN", "CLOSED">>,
     <<"HALF_OPEN", "OPEN">>}

\* C33: the circuit of a backend changes only with time, with its own
\* cool-down timer, and with the arrival and the outcomes of calls to its
\* own backend, never with those of the other backend; its state changes
\* only on its own outcomes and timer, and only along CLOSED to OPEN, OPEN
\* to HALF_OPEN, HALF_OPEN to CLOSED and HALF_OPEN to OPEN.
C33_CircuitsIsolated ==
    [][\A b \in Backends :
          LET before == circuits[b]
              after == circuits'[b]
          IN /\ after # before =>
                    Elapse \/ HalfOpenTimer(b) \/ Outcome_Of(b) \/ Arrival_For(b)
             /\ after.state # before.state =>
                    /\ HalfOpenTimer(b) \/ Outcome_Of(b)
                    /\ <<before.state, after.state>> \in CircuitEdges
             /\ \A other \in Backends \ {b} :
                    Outcome_Of(other) \/ Arrival_For(other) \/ HalfOpenTimer(other)
                        => after = before]_vars

\* the users circuit is open after a failure while the orders circuit has
\* passed a call and counted no failure
C33_Witness ==
    /\ circuits["users"].state = "OPEN"
    /\ Total(circuits["users"].failures) = 1
    /\ circuits["orders"].state = "CLOSED"
    /\ Total(circuits["orders"].fires) = 1
    /\ Total(circuits["orders"].failures) = 0
    /\ \E id \in DOMAIN replies : replies[id].route = "listOrders" /\ replies[id].status = 200

\* ---------------------------------------------------------------- C36

\* C36: no step of the service takes an order out of the store or gives it
\* another identifier: the stored identifiers only grow.  An order cancelled
\* through DELETE stays stored with status cancelled, and read-single and
\* list return it, as cancelled, to its owner and to every admin.
C36_NothingRemoved ==
    /\ [](/\ op = "delete" /\ res.status = 200 =>
               /\ res.data[1].id \in DOMAIN orders
               /\ orders[res.data[1].id].status = "cancelled"
          /\ \A id \in DOMAIN orders : \A c \in Callers :
                orders[id].status = "cancelled" /\ Authorised(c, id) =>
                   /\ Get(c, id).res.status = 200
                   /\ Get(c, id).res.data = <<orders[id]>>
                   /\ List(c, NoQuery).res.status = 200
                   /\ \E i \in DOMAIN List(c, NoQuery).res.data[1].orders :
                         List(c, NoQuery).res.data[1].orders[i] = orders[id])
    /\ [][/\ DOMAIN orders \subseteq DOMAIN orders'
          /\ \A id \in DOMAIN orders : orders'[id].id = orders[id].id]_vars

\* an order in progress was cancelled through DELETE and is still stored
C36_Witness ==
    /\ op = "delete"
    /\ res.status = 200
    /\ res.data[1].id \in DOMAIN orders
    /\ orders[res.data[1].id].status = "cancelled"
    /\ Len(published) = 1
    /\ published[1].oldStatus = "in_progress"

\* ---------------------------------------------------------------- C32, C35

\* the step answers job k
Replies(k) == k \in DOMAIN jobs /\ jobs[k].phase # "done" /\ jobs'[k].phase = "done"
\* job k is a status update, or a cancel, of the stored order id by its owner
\* or an admin
Touches(k, id) ==
    /\ jobs[k].request.route \in {"patch", "delete"}
    /\ jobs[k].request.id = id
    /\ id \in DOMAIN orders
    /\ Authorised(<<jobs[k].request.userId, jobs[k].request.roles>>, id)
\* the status a job asks for
Asked(k) ==
    IF jobs[k].request.route = "delete" THEN "cancelled" ELSE jobs[k].request.body.status

\* C32: requests in flight are answered one at a time.  Every step that
\* changes the store or answers a request is the whole handler of one request
\* in flight, run on the store as it is at that step: the store it leaves and
\* the response are the handler's, no other request is touched, and a
\* response once sent is never changed.  So the store and the responses are
\* those of the requests handled one after the other in the order of these
\* steps.  A status update to created or in_progress of an order that is
\* created or in_progress, whatever else is in flight, succeeds and leaves
\* its target as the status.
C32_Serialisable ==
    [][/\ (orders' # orders \/ \E k \in DOMAIN jobs : Replies(k)) =>
             \E k \in DOMAIN jobs :
                /\ Replies(k)
                /\ \E t \in Later :
                      /\ orders' = Router(jobs[k].request, t).orders
                      /\ jobs'[k].res = Router(jobs[k].request, t).res
                /\ \A i \in DOMAIN jobs \ {k} : jobs'[i] = jobs[i]
       /\ \A k \in DOMAIN jobs :
             /\ jobs[k].phase = "done" => jobs'[k] = jobs[k]
             /\ /\ Replies(k)
                /\ Touches(k, jobs[k].request.id)
                /\ jobs[k].request.route = "patch"
                /\ Asked(k) \notin Absorbing
                /\ orders[jobs[k].request.id].status \notin Absorbing
                => /\ jobs'[k].res.status = 200
                   /\ orders'[jobs[k].request.id].status = Asked(k)]_vars

\* two status updates of one order were in flight together, the one that
\* arrived second was applied first, both succeeded, and the status is the
\* target of the one applied last
C32_Witness ==
    /\ Len(jobs) = 2
    /\ \A k \in {1, 2} : /\ jobs[k].request.route = "patch"
                         /\ jobs[k].phase = "done"
                         /\ jobs[k].res.status = 200
    /\ jobs[1].request.body.status = "in_progress"
    /\ jobs[2].request.body.status = "created"
    /\ jobs[2].res.data[1].status = "created"
    /\ jobs[1].res.data[1].status = "in_progress"
    /\ orders[1].status = "in_progress"
    /\ op = "patch"
    /\ Len(published) = 1
    /\ published[1].oldStatus = "created"
    /\ published[1].newStatus = "in_progress"

\* job k asks for an absorbing status of the stored order id: a status update
\* to completed or a cancel, by the owner or an admin
Closes(k, id) == Touches(k, id) /\ Asked(k) \in Absorbing
\* the absorbing-status error of a route
AbsorbingError(route) ==
    IF route = "patch" THEN "INVALID_STATUS_TRANSITION" ELSE "CANNOT_CANCEL_COMPLETED"

\* C35: a status update to completed and a cancel of one order, by its owner
\* or an admin, in flight together.  Whichever is handled while the order is
\* created or in_progress succeeds and sets its status; whichever is handled
\* after the other one succeeded is rejected with 400 and the absorbing-status
\* error of its route, and leaves the store alone.  No order is ever both
\* completed and cancelled with success, so exactly one of the two succeeds
\* and the final status is its own.
C35_CompleteAgainstCancel ==
    /\ [](\A i, k \in DOMAIN jobs : \A id \in DOMAIN orders :
             /\ Closes(i, id) /\ Closes(k, id)
             /\ Asked(i) = "completed" /\ Asked(k) = "cancelled"
             /\ jobs[i].phase = "done" /\ jobs[k].phase = "done"
             => /\ ~(jobs[i].res.status = 200 /\ jobs[k].res.status = 200)
                /\ jobs[i].res.status = 200 => orders[id].status = "completed"
                /\ jobs[k].res.status = 200 => orders[id].status = "cancelled")
    /\ [][\A k \in DOMAIN jobs : \A id \in DOMAIN orders :
             Replies(k) /\ Closes(k, id) =>
                /\ orders[id].status \notin Absorbing =>
                      /\ jobs'[k].res.status = 200
                      /\ orders'[id].status = Asked(k)
                /\ \A i \in DOMAIN jobs :
                      /\ Closes(i, id) /\ Asked(i) # Asked(k)
                      /\ jobs[i].phase = "done" /\ jobs[i].res.status = 200
                      => /\ jobs'[k].res.status = 400
                         /\ jobs'[k].res.code = AbsorbingError(jobs[k].request.route)
                         /\ orders' = orders
                         /\ orders[id].status = Asked(i)]_vars

\* the update to completed arrived first, the cancel was handled first and
\* succeeded, the update was rejected, and the order is cancelled
C35_Witness ==
    /\ Len(jobs) = 2
    /\ jobs[1].request.route = "patch" /\ jobs[1].request.body.status = "completed"
    /\ jobs[2].request.route = "delete"
    /\ jobs[2].phase = "done" /\ jobs[2].res.status = 200
    /\ jobs[1].phase = "done" /\ jobs[1].res.status = 400
    /\ jobs[1].res.code = "INVALID_STATUS_TRANSITION"
    /\ op = "patch"
    /\ orders[1].status = "cancelled"

\* the cancel arrived first, the update to completed was handled first and
\* succeeded, the cancel was rejected, and the order is completed
C35_WitnessCompleted ==
    /\ Len(jobs) = 2
    /\ jobs[1].request.route = "delete"
    /\ jobs[2].request.route = "patch" /\ jobs[2].request.body.status = "completed"
    /\ jobs[2].phase = "done" /\ jobs[2].res.status = 200
    /\ jobs[1].phase = "done" /\ jobs[1].res.status = 400
    /\ jobs[1].res.code = "CANNOT_CANCEL_COMPLETED"
    /\ op = "delete"
    /\ orders[1].status = "completed"

\* ---------------------------------------------------------------- C37, C38

\* C37: no two stored users have the same email, letter case set aside.
C37_UniqueEmails ==
    \A a, b \in DOMAIN users :
       toLowerCase(users[a].email) = toLowerCase(users[b].email) => a = b

\* two registrations of one address in two spellings were both stored
C37_BothStored ==
    /\ UserIds[1] \in DOMAIN users /\ UserIds[2] \in DOMAIN users
    /\ users[UserIds[1]].email = Ann
    /\ users[UserIds[2]].email = ANN
    /\ \A k \in {2, 3} : /\ pending[k].request.route = "register"
                         /\ pending[k].res.status = 201

\* C38: every stored user but the seeded admin holds exactly the role user,
\* whatever roles the register or update body asked for; no step changes the
\* roles of a stored user or removes one; and a token that login issues
\* carries the stored roles of its user, so it carries admin only with the
\* identifier of the seeded admin.
C38_NoRoleGranted ==
    /\ [](/\ \A id \in DOMAIN users :
                users[id].roles = IF id = AdminId THEN <<"admin", "user">> ELSE <<"user">>
          /\ \A k \in DOMAIN pending :
                /\ pending[k].request.route = "register" /\ pending[k].res.status = 201 =>
                      pending[k].res.data[1].roles = <<"user">>
                /\ pending[k].request.route = "login" /\ pending[k].res.status = 200 =>
                      LET token == pending[k].res.data[1] IN
                      /\ token.userId \in DOMAIN users
                      /\ token.roles = users[token.userId].roles
                      /\ Includes(token.roles, "admin") => token.userId = AdminId)
    /\ [][\A id \in DOMAIN users :
             id \in DOMAIN users' /\ users'[id].roles = users[id].roles]_vars

\* a registration that asked for the admin role was stored as a plain user,
\* who then logged in and got a token without admin
C38_Witness ==
    \E k, l \in DOMAIN pending :
       /\ pending[k].request.route = "register"
       /\ Includes(pending[k].request.body.roles, "admin")
       /\ pending[k].res.status = 201
       /\ pending[l].request.route = "login"
       /\ pending[l].res.status = 200
       /\ pending[l].res.data[1].userId = pending[k].res.data[1].id
       /\ pending[l].res.data[1].roles = <<"user">>

\* the seeded admin logged in and got a token with admin, beside a
\* registered user who asked for admin and holds user
C38_WitnessAdmin ==
    \E k, l \in DOMAIN pending :
       /\ pending[k].request.route = "login"
       /\ pending[k].res.status = 200
       /\ pending[k].res.data[1].userId = AdminId
       /\ Includes(pending[k].res.data[1].roles, "admin")
       /\ pending[l].request.route = "register"
       /\ Includes(pending[l].request.body.roles, "admin")
       /\ pending[l].res.status = 201

\* ---------------------------------------------------------------- C39

\* the caller of a details request may see the user it names
MaySee(request) ==
    LET user == authMiddleware(request.authorization).user
    IN user.userId = request.userId \/ Includes(user.roles, "admin")
Details == {id \in DOMAIN replies : replies[id].route = "details"}

\* C39: a details request of a verified caller who is neither the user named
\* nor an admin is answered 403 and starts no backend call; any other one
\* calls both backends in the name of the user named, with the role user
\* alone, so that the order service lists that user's orders only, for an
\* admin caller too.  A details answer of 200 holds only orders of the user
\* its calls named, and when the profile answer is 200 and the orders call
\* ended without a 200 (the backend down, the circuit open) the answer is 200
\* with an empty order list.
C39_DetailsAggregation ==
    /\ \A request \in DetailsRequests :
          LET g == Received(request) IN
          IF ~MaySee(request)
          THEN /\ g.replies[NextId] = Reply("details", Result(403, Body("FORBIDDEN", "")))
               /\ NoBackendCall(g)
          ELSE /\ \A b \in Backends :
                     /\ <<NextId, b>> \in DOMAIN g.calls
                     /\ g.calls[<<NextId, b>>].headers =
                           IdentityHeaders(request.userId, <<"user">>)
               /\ LET listed == List(<<request.userId, <<"user">>>>, NoQuery).res.data[1]
                  IN /\ \A i \in DOMAIN listed.orders :
                           listed.orders[i].userId = request.userId
                     /\ \A id \in DOMAIN orders :
                           orders[id].userId = request.userId =>
                              \E i \in DOMAIN listed.orders : listed.orders[i] = orders[id]
    /\ \A id \in Details :
          /\ replies[id].status = 200 =>
                /\ calls[<<id, "users">>].result.status = 200
                /\ \A i \in DOMAIN replies[id].data.detail.orders :
                      replies[id].data.detail.orders[i].userId =
                         calls[<<id, "orders">>].headers.userId
          /\ /\ Legs(Current, id) = Backends
             /\ calls[<<id, "users">>].result.status = 200
             /\ calls[<<id, "orders">>].result.status \notin {0, 200}
             => /\ replies[id].status = 200
                /\ replies[id].data.detail.orders = <<>>

\* the details of u1 were asked for, by u1 or by the admin, whose calls are
\* the same, and the answer holds the two orders of u1 and not the order of
\* u2 that the store holds as well
C39_Witness ==
    \E id \in Details :
       /\ replies[id].status = 200
       /\ calls[<<id, "orders">>].headers.userId = "u1"
       /\ Len(replies[id].data.detail.orders) = 2
       /\ \E o \in DOMAIN orders : orders[o].userId = "u2"
       /\ Cardinality(Details) = 1

\* the order service was down, the profile came with 200, and the answer is
\* 200 with no orders though the store holds orders of the user
C39_WitnessUnavailable ==
    \E id \in Details :
       /\ replies[id].status = 200
       /\ calls[<<id, "orders">>].result.status = 503
       /\ replies[id].data.detail.orders = <<>>
       /\ \E o \in DOMAIN orders :
             orders[o].userId = calls[<<id, "orders">>].headers.userId

\* u1 asked for the details of u2 and got 403 with no call made
C39_WitnessForbidden ==
    \E id \in Details :
       /\ replies[id].status = 403
       /\ Legs(Current, id) = {}

====
